---------------------------- MODULE Spec2Model ----------------------------
(***************************************************************************)
(* Model of the IR remote-control endpoint of callousyyc/ir_project:       *)
(*   - the protocol codec          (src/src/irdb_protocol.c)               *)
(*   - the learning capture engine (src/src/ir_learning.c, on top of the   *)
(*     edge source of src/src/ir_hal.c)                                    *)
(*   - the database cache          (src/src/irdb_loader.c)                 *)
(*     called by one thread, and statement by statement by two threads     *)
(*   - the transmitter             (src/src/ir_hal.c and the send loops    *)
(*     of src/src/ir_service.c and src/src/ir_learning.c)                  *)
(*   - signal analysis and similarity (src/src/ir_learning.c)              *)
(* The components share no state; each has a specification of its own      *)
(* (SpecCodec, SpecLearn, SpecCache, SpecThreads, SpecTx, SpecAnalysis)    *)
(* that leaves the variables of the others unchanged.                      *)
(***************************************************************************)
EXTENDS Integers, Sequences, FiniteSets, TLC

VARIABLES
  \* ---- protocol codec: the last call of each function, inputs and outputs
  enc,            \* last irdb_encode_to_raw call
  dec,            \* last irdb_decode_from_raw call
  \* ---- learning capture engine
  learn_state,    \* static struct learn_state (ir_learning.c), but for the timers
  timing_buffer,  \* the heap array learn_state.current_signal.timings points to
  timeout_timer,  \* learn_state.timeout_timer is running
  end_timer,      \* learn_state.end_timer is running
  rx_state,       \* static struct rx_state (ir_hal.c) and the pin interrupt
  pc,             \* where the calling thread is, inside Start or Stop
  call,           \* the arguments of the call the thread is in, its last return
  notes,          \* history: the notifications delivered since the last Start
  hist,           \* history: counters of the current session and of the run
  \* ---- database cache (irdb_loader.c)
  cache,          \* static irdb_cache_entry_t cache[IRDB_CACHE_SIZE]
  now,            \* the uptime in ms, as k_uptime_get_32() returns it
  cache_hist,     \* history: the last cache call, the true order of accesses
  heap,           \* the irdb_entry_t arrays on the heap: what each address holds
  caller,         \* the irdb_database_t of the thread that calls irdb_cache_put
  cache_mutex,    \* static struct k_mutex cache_mutex: its owner, or "none"
  threads,        \* per thread: where it is in a cache call, and its locals
  \* ---- transmitter (ir_hal.c, ir_service.c, ir_learning.c)
  tx,             \* the PWM output and the send in progress
  \* ---- signal analysis and similarity (ir_learning.c)
  ana,            \* last ir_learning_analyze call
  cmp             \* last ir_learning_compare call

codecVars == <<enc, dec>>

learnVars == <<learn_state, timing_buffer, timeout_timer, end_timer, rx_state,
               pc, call, notes, hist>>

threadVars == <<cache_mutex, threads>>

cacheVars == <<cache, now, cache_hist, heap, caller, threadVars>>

\* What the actions of one component leave unchanged.
analysisVars == <<ana, cmp>>

txVars == <<tx>>

notCodecVars == <<learnVars, cacheVars, analysisVars, txVars>>
notLearnVars == <<codecVars, cacheVars, analysisVars, txVars>>
notCacheVars == <<codecVars, learnVars, analysisVars, txVars>>
notAnalysisVars == <<codecVars, learnVars, cacheVars, txVars>>
notTxVars == <<codecVars, learnVars, cacheVars, analysisVars>>

vars == <<enc, dec, learn_state, timing_buffer, timeout_timer, end_timer,
          rx_state, pc, call, notes, hist, cache, now, cache_hist, heap, caller,
          cache_mutex, threads, tx, ana, cmp>>

(***************************************************************************)
(*                              conventions                                *)
(***************************************************************************)
\* Return values are modelled by name: "0" for success, "-ENOMEM" etc. for
\* the negated errno values.
\* A C integer that is used as a string of bits (the uint64_t code word of the
\* codec, up to 32 bits wide) is modelled as the sequence of its bits, most
\* significant first.

\* The value of a sequence of bits.
RECURSIVE BitsValue(_)
BitsValue(bits) ==
  IF bits = <<>> THEN 0
  ELSE 2 * BitsValue(SubSeq(bits, 1, Len(bits) - 1)) + bits[Len(bits)]

\* The n low bits of x, as a sequence of n bits.
BitsOf(x, n) == [k \in 1..n |-> (x \div (2 ^ (n - k))) % 2]

(***************************************************************************)
(*                 Protocol codec  (src/src/irdb_protocol.c)               *)
(***************************************************************************)
TOLERANCE_PERCENT == 20

IRDB_PROTOCOL_NEC1 == 1
IRDB_PROTOCOL_NEC2 == 2
IRDB_PROTOCOL_RC5 == 4
IRDB_PROTOCOL_RC6 == 5
IRDB_PROTOCOL_SONY12 == 15
IRDB_PROTOCOL_SONY15 == 16
IRDB_PROTOCOL_SONY20 == 17
IRDB_PROTOCOL_SAMSUNG32 == 20

\* One row of protocol_params[] (name, frequency, duty cycle and gap play no
\* part in encode or decode and are left out).
ParamRow(id, hm, hs, bm, b0, b1, tm, db, sb, fb, tg) ==
  [protocol_id |-> id, header_mark |-> hm, header_space |-> hs,
   bit_mark |-> bm, bit_0_space |-> b0, bit_1_space |-> b1,
   trailer_mark |-> tm, device_bits |-> db, subdevice_bits |-> sb,
   function_bits |-> fb, toggle_bit |-> tg]

\* static const irdb_protocol_params_t protocol_params[]
protocol_params ==
  << ParamRow(IRDB_PROTOCOL_NEC1,      9000, 4500,  560, 560, 1690, 560,  8, 8, 8, FALSE),
     ParamRow(IRDB_PROTOCOL_NEC2,      9000, 4500,  560, 560, 1690, 560, 16, 0, 8, FALSE),
     ParamRow(IRDB_PROTOCOL_RC5,          0,    0,  889, 889,  889,   0,  5, 0, 6, TRUE),
     ParamRow(IRDB_PROTOCOL_SONY12,    2400,  600, 1200, 600,  600,   0,  5, 0, 7, FALSE),
     ParamRow(IRDB_PROTOCOL_SONY15,    2400,  600, 1200, 600,  600,   0,  8, 0, 7, FALSE),
     ParamRow(IRDB_PROTOCOL_SAMSUNG32, 4500, 4500,  560, 560, 1690, 560,  8, 8, 8, FALSE) >>

NoParams == [protocol_id |-> 0]

\* irdb_get_protocol_params: the first row with the protocol id, or NULL.
irdb_get_protocol_params(protocol) ==
  LET hits == {i \in 1..Len(protocol_params) :
                 protocol_params[i].protocol_id = protocol}
  IN IF hits = {} THEN NoParams
     ELSE protocol_params[CHOOSE i \in hits : \A j \in hits : i <= j]

SupportedProtocols == {protocol_params[i].protocol_id : i \in 1..Len(protocol_params)}

\* x & ((1 << bits) - 1)
MaskBits(x, bits) == x % (2 ^ bits)

\* (code << bits) | field, for a field already masked to `bits` bits
ShiftIn(code, bits, field) == code \o BitsOf(field, bits)

\* decoded & ((1 << bits) - 1)
LowBits(decoded, bits) ==
  BitsValue(SubSeq(decoded, Len(decoded) - bits + 1, Len(decoded)))

\* decoded >> bits
ShiftRight(decoded, bits) == SubSeq(decoded, 1, Len(decoded) - bits)

ComplementByte_Identity(function) == function % 256

\* (~function) & 0xFF
ComplementByte(function) == 255 - (function % 256)

CodeWord_FunctionFirst(entry, params) ==
  LET f == BitsOf(MaskBits(entry.function, params.function_bits),
                  params.function_bits)
      d == BitsOf(MaskBits(entry.device, params.device_bits),
                  params.device_bits)
      sd == BitsOf(MaskBits(entry.subdevice, params.subdevice_bits),
                   params.subdevice_bits)
      c == f \o d \o sd
  IN IF entry.protocol = IRDB_PROTOCOL_NEC1
     THEN [code |-> ShiftIn(c, 8, ComplementByte(entry.function)),
           total_bits |-> Len(c) + 8]
     ELSE [code |-> c, total_bits |-> Len(c)]

\* The code word irdb_encode_to_raw assembles, with its width in bits.
CodeWord(entry, params) ==
  LET c1 == IF params.device_bits > 0
            THEN ShiftIn(<<>>, params.device_bits,
                         MaskBits(entry.device, params.device_bits))
            ELSE <<>>
      n1 == IF params.device_bits > 0 THEN params.device_bits ELSE 0
      c2 == IF params.subdevice_bits > 0
            THEN ShiftIn(c1, params.subdevice_bits,
                         MaskBits(entry.subdevice, params.subdevice_bits))
            ELSE c1
      n2 == IF params.subdevice_bits > 0 THEN n1 + params.subdevice_bits ELSE n1
      c3 == ShiftIn(c2, params.function_bits,
                    MaskBits(entry.function, params.function_bits))
      n3 == n2 + params.function_bits
  IN IF entry.protocol = IRDB_PROTOCOL_NEC1
     THEN [code |-> ShiftIn(c3, 8, ComplementByte(entry.function)),
           total_bits |-> n3 + 8]
     ELSE [code |-> c3, total_bits |-> n3]

EncodeBit_NoManchester(entry, params, bit) ==
  IF entry.protocol <= IRDB_PROTOCOL_SONY20
  THEN <<(IF bit = 1 THEN params.bit_mark ELSE params.bit_mark \div 2),
         params.bit_0_space>>
  ELSE <<params.bit_mark,
         (IF bit = 1 THEN params.bit_1_space ELSE params.bit_0_space)>>

\* The two durations irdb_encode_to_raw emits for one bit.
EncodeBit(entry, params, bit) ==
  IF entry.protocol = IRDB_PROTOCOL_RC5
  THEN IF bit = 1 THEN <<params.bit_0_space, params.bit_mark>>
                  ELSE <<params.bit_mark, params.bit_0_space>>
  ELSE IF entry.protocol >= IRDB_PROTOCOL_SONY12
          /\ entry.protocol <= IRDB_PROTOCOL_SONY20
  THEN <<(IF bit = 1 THEN params.bit_mark ELSE params.bit_mark \div 2),
         params.bit_0_space>>
  ELSE <<params.bit_mark,
         (IF bit = 1 THEN params.bit_1_space ELSE params.bit_0_space)>>

RECURSIVE EncodeBits_LooseCheck(_, _, _, _, _, _)
EncodeBits_LooseCheck(entry, params, code, i, out, max_length) ==
  IF i < 0 THEN [ret |-> "0", out |-> out]
  ELSE IF Len(out) + 1 > max_length THEN [ret |-> "-ENOMEM", out |-> out]
  ELSE EncodeBits_LooseCheck(entry, params, code, i - 1,
                             out \o EncodeBit(entry, params,
                                              code[Len(code) - i]),
                             max_length)

\* The data-bit loop of irdb_encode_to_raw: for (i = total_bits-1; i >= 0; i--).
\* `out` is what has been written to timings_out so far (idx = Len(out)).
RECURSIVE EncodeBits(_, _, _, _, _, _)
EncodeBits(entry, params, code, i, out, max_length) ==
  IF i < 0 THEN [ret |-> "0", out |-> out]
  ELSE IF Len(out) + 2 > max_length THEN [ret |-> "-ENOMEM", out |-> out]
  ELSE EncodeBits(entry, params, code, i - 1,
                  out \o EncodeBit(entry, params, code[Len(code) - i]),
                  max_length)

\* irdb_encode_to_raw(entry, timings_out, length_out, max_length).
\* timings: what was written to timings_out; length: *length_out (-1: not set).
irdb_encode_to_raw(entry, max_length) ==
  LET params == irdb_get_protocol_params(entry.protocol)
  IN IF params = NoParams
     THEN [ret |-> "-ENOTSUP", timings |-> <<>>, length |-> -1]
     ELSE
       LET hdr == IF params.header_mark > 0
                  THEN IF 2 > max_length
                       THEN [ret |-> "-ENOMEM", out |-> <<>>]
                       ELSE [ret |-> "0",
                             out |-> <<params.header_mark, params.header_space>>]
                  ELSE [ret |-> "0", out |-> <<>>]
           cw == CodeWord(entry, params)
           body == IF hdr.ret # "0" THEN hdr
                   ELSE EncodeBits(entry, params, cw.code, cw.total_bits - 1,
                                   hdr.out, max_length)
       IN IF body.ret # "0"
          THEN [ret |-> body.ret, timings |-> body.out, length |-> -1]
          ELSE IF params.trailer_mark > 0
          THEN IF Len(body.out) + 1 > max_length
               THEN [ret |-> "-ENOMEM", timings |-> body.out, length |-> -1]
               ELSE [ret |-> "0",
                     timings |-> Append(body.out, params.trailer_mark),
                     length |-> Len(body.out) + 1]
          ELSE [ret |-> "0", timings |-> body.out, length |-> Len(body.out)]

\* timing_match(measured, expected). The expected durations are those of
\* protocol_params (at most 9000), so expected * 20 stays below 2^32.
timing_match(measured, expected) ==
  IF expected = 0 THEN measured = 0
  ELSE LET tolerance == (expected * TOLERANCE_PERCENT) \div 100
       IN /\ measured >= expected - tolerance
          /\ measured <= expected + tolerance

\* One step of the body loop of irdb_decode_from_raw on timings[idx], timings[idx+1]
\* (0-based idx): the bit decoded, or -1 for `break`.
DecodeBit(entry, params, timings, idx) ==
  LET t0 == timings[idx + 1]
      t1 == timings[idx + 2]
  IN IF entry.protocol = IRDB_PROTOCOL_RC5
     THEN IF timing_match(t0, params.bit_mark)
             /\ timing_match(t1, params.bit_0_space) THEN 0
          ELSE IF timing_match(t0, params.bit_0_space)
                  /\ timing_match(t1, params.bit_mark) THEN 1
          ELSE -1
     ELSE IF ~timing_match(t0, params.bit_mark) THEN -1
          ELSE IF timing_match(t1, params.bit_0_space) THEN 0
          ELSE IF timing_match(t1, params.bit_1_space) THEN 1
          ELSE -1

\* while (idx + 1 < length && bits_decoded < total_bits) { ... }
RECURSIVE DecodeBits(_, _, _, _, _, _, _, _)
DecodeBits(entry, params, timings, length, idx, decoded, bits_decoded, total_bits) ==
  IF ~(idx + 1 < length /\ bits_decoded < total_bits)
  THEN [decoded |-> decoded, bits_decoded |-> bits_decoded, idx |-> idx]
  ELSE LET b == DecodeBit(entry, params, timings, idx)
       IN IF b = -1
          THEN [decoded |-> decoded, bits_decoded |-> bits_decoded, idx |-> idx]
          ELSE DecodeBits(entry, params, timings, length, idx + 2,
                          Append(decoded, b), bits_decoded + 1, total_bits)

\* The body of the for loop of irdb_decode_from_raw for one database entry:
\* TRUE iff the entry is the match (`continue` is FALSE).
DecodeTry(entry, timings, length) ==
  LET params == irdb_get_protocol_params(entry.protocol)
  IN IF params = NoParams THEN FALSE
     ELSE
       LET hdrOk == IF params.header_mark > 0
                    THEN /\ 2 <= length
                         /\ timing_match(timings[1], params.header_mark)
                         /\ timing_match(timings[2], params.header_space)
                    ELSE TRUE
           idx0 == IF params.header_mark > 0 THEN 2 ELSE 0
           total_bits == params.device_bits + params.subdevice_bits
                         + params.function_bits
                         + (IF entry.protocol = IRDB_PROTOCOL_NEC1 THEN 8 ELSE 0)
       IN IF ~hdrOk THEN FALSE
          ELSE
            LET r == DecodeBits(entry, params, timings, length, idx0, <<>>, 0,
                                total_bits)
                function == LowBits(r.decoded, params.function_bits)
                d1 == ShiftRight(r.decoded, params.function_bits)
                d2 == IF entry.protocol = IRDB_PROTOCOL_NEC1
                      THEN ShiftRight(d1, 8) ELSE d1
                subdevice == IF params.subdevice_bits > 0
                             THEN LowBits(d2, params.subdevice_bits) ELSE 0
                d3 == IF params.subdevice_bits > 0
                      THEN ShiftRight(d2, params.subdevice_bits) ELSE d2
                device == LowBits(d3, params.device_bits)
            IN /\ r.bits_decoded = total_bits
               /\ device = entry.device
               /\ subdevice = entry.subdevice
               /\ function = entry.function

NoEntry == [function_name |-> "", protocol |-> 0, device |-> 0,
            subdevice |-> 0, function |-> 0]

FirstMatch_Last(hits) == CHOOSE i \in hits : \A j \in hits : i >= j

\* for (i = 0; i < db->entry_count; i++) { ... return 0; }: of the entries
\* that match, the loop reaches the one with the lowest index and returns.
FirstMatch(hits) == CHOOSE i \in hits : \A j \in hits : i <= j

\* irdb_decode_from_raw(db, timings, length, entry_out); db is db->entries.
irdb_decode_from_raw(db, timings, length) ==
  IF length < 4 THEN [ret |-> "-EINVAL", entry_out |-> NoEntry]
  ELSE LET hits == {i \in 1..Len(db) : DecodeTry(db[i], timings, length)}
       IN IF hits = {} THEN [ret |-> "-ENOENT", entry_out |-> NoEntry]
          ELSE [ret |-> "0", entry_out |-> db[FirstMatch(hits)]]

(***************************************************************************)
(*                     Protocol codec: the state machine                   *)
(***************************************************************************)
\* MAX_RAW_TIMINGS, the capacity ir_service.c passes as max_length
MAX_RAW_TIMINGS == 512

\* Values of the device, subdevice and function fields of the entries tried:
\* the ends of the 5, 7 and 8 bit ranges, the values of the documented NEC1
\* example (7, 7, 12), and one value (300) that needs more than 8 bits.
FieldValues == {0, 7, 12, 31, 127, 255, 300}

\* Protocol ids of the entries tried: every row of the table, and RC6, which
\* has an id (irdb_protocol_id_t) and no row.
EntryProtocols == SupportedProtocols \cup {IRDB_PROTOCOL_RC6}

\* Capacities passed as max_length.
MaxLengths == {1, 24, 66, 67, MAX_RAW_TIMINGS}

Entries ==
  [function_name : {"Power"}, protocol : EntryProtocols,
   device : FieldValues, subdevice : FieldValues, function : FieldValues]

\* Another entry of the same device: a different function code and name.
OtherEntry(e) ==
  [e EXCEPT !.function_name = "Vol+",
            !.function = IF e.function = 0 THEN 1 ELSE 0]

\* A second entry with the codes of e under another name.
Alias(e) == [e EXCEPT !.function_name = "On"]

\* An entry of another protocol that the timings of e fit: for NEC1
\* the NEC2 entry whose 16 device bits are e's device and subdevice bytes
\* (same header, same bit timings, 24 bits read of the 32); else Alias(e).
Twin(e) ==
  IF e.protocol = IRDB_PROTOCOL_NEC1
  THEN [function_name |-> "On", protocol |-> IRDB_PROTOCOL_NEC2,
        device |-> MaskBits(e.device, 8) * 256 + MaskBits(e.subdevice, 8),
        subdevice |-> 0, function |-> MaskBits(e.function, 8)]
  ELSE Alias(e)

\* The databases tried with entry e: it alone, and with another entry before
\* or after it: one of the same device, one with the same codes, one of
\* another protocol.
DatabasesWith(e) ==
  { <<e>>, <<OtherEntry(e), e>>, <<e, OtherEntry(e)>>,
    <<Alias(e), e>>, <<e, Alias(e)>>, <<Twin(e), e>>, <<e, Twin(e)>> }

\* What a receiver may have observed of the transmission of timings, sent
\* with the protocol of params: all of it; all but the trailer mark; a
\* trailer mark as long as a header mark; two more durations after the end.
Observed(timings, params) ==
  LET n == Len(timings)
  IN {timings, timings \o <<560, 1690>>}
     \cup (IF params.trailer_mark > 0
           THEN {SubSeq(timings, 1, n - 1),
                 [timings EXCEPT ![n] = 9000]}
           ELSE {})

NoEnc == [entry |-> NoEntry, max_length |-> 0, ret |-> "none",
          timings |-> <<>>, length |-> -1]
NoDec == [db |-> <<>>, timings |-> <<>>, length |-> 0, ret |-> "none",
          entry_out |-> NoEntry, src |-> NoEntry]

\* A call irdb_encode_to_raw(entry, timings_out, &length, max_length), made
\* by a caller that holds no result of an earlier call.
EncodeToRaw ==
  /\ enc = NoEnc
  /\ \E e \in Entries, m \in MaxLengths :
       LET r == irdb_encode_to_raw(e, m)
       IN enc' = [entry |-> e, max_length |-> m, ret |-> r.ret,
                  timings |-> r.timings, length |-> r.length]
  /\ UNCHANGED <<dec, notCodecVars>>

\* A call irdb_decode_from_raw(db, timings, length, &entry_out) on what was
\* observed of the timings the last successful encode into a buffer of
\* MAX_RAW_TIMINGS produced, with a database holding its entry.
DecodeFromRaw ==
  /\ enc.ret = "0"
  /\ enc.max_length = MAX_RAW_TIMINGS
  /\ dec = NoDec
  /\ \E db \in DatabasesWith(enc.entry),
        t \in Observed(enc.timings,
                       irdb_get_protocol_params(enc.entry.protocol)) :
       LET r == irdb_decode_from_raw(db, t, Len(t))
       IN dec' = [db |-> db, timings |-> t, length |-> Len(t),
                  ret |-> r.ret, entry_out |-> r.entry_out, src |-> enc.entry]
  /\ UNCHANGED <<enc, notCodecVars>>

\* The caller is done with the results (its timings array and decoded entry
\* are locals of ir_service.c's send and receive paths) and starts over.
CodecCallerReturns ==
  /\ enc # NoEnc
  /\ (enc.ret = "0" /\ enc.max_length = MAX_RAW_TIMINGS) => dec # NoDec
  /\ enc' = NoEnc
  /\ dec' = NoDec
  /\ UNCHANGED notCodecVars


(***************************************************************************)
(*        Learning capture engine  (src/src/ir_learning.c, ir_hal.c)       *)
(*                                                                         *)
(* Execution contexts: one calling thread (the shell or main thread) that  *)
(* runs ir_learning_init, ir_learning_start and ir_learning_stop statement *)
(* by statement (pc), and three interrupt handlers that preempt it between *)
(* any two statements and run to completion: the GPIO edge handler of the  *)
(* HAL, which calls learning_rx_callback, and the expiry functions of the  *)
(* two k_timers.  Time is not measured: a running timer may expire at any  *)
(* moment.                                                                 *)
(***************************************************************************)
IR_LEARNING_MAX_EDGES == 512
MIN_PULSE_US == 50
IR_MAX_PULSE_US == 100000

\* Durations the edge source measures between two edges: noise just below the
\* minimum pulse, the minimum pulse, an ordinary pulse, and the HAL's ceiling.
Durations == {49, 50, 600, 100000}

\* Arguments of ir_learning_start: the signal names of ir_learning_app.c, and a
\* callback or none.
SignalNames == {"Power", "VolumeUp"}
Callbacks == {"learning_callback", "NULL"}

\* Pulses the edge source delivers in one run, and sessions started in one run.
MaxEdges == 4
MaxSessions == 2
\* Edges already recorded in the session in progress of the second initial state.
PreFill == 510

\* The state the handlers read and write, as one record.
World ==
  [learn_state |-> learn_state, timing_buffer |-> timing_buffer,
   timeout_timer |-> timeout_timer, end_timer |-> end_timer,
   rx_state |-> rx_state, notes |-> notes, hist |-> hist]

\* The next state is w (pc and call are set by the actions).
Becomes(w) ==
  /\ learn_state' = w.learn_state
  /\ timing_buffer' = w.timing_buffer
  /\ timeout_timer' = w.timeout_timer
  /\ end_timer' = w.end_timer
  /\ rx_state' = w.rx_state
  /\ notes' = w.notes
  /\ hist' = w.hist

NullSignal == [present |-> FALSE, name |-> "", valid |-> FALSE, timing_count |-> 0]

\* What a callback reads through the pointer &learn_state.current_signal.
CurrentSignal(w) ==
  [present |-> TRUE, name |-> w.learn_state.name, valid |-> w.learn_state.valid,
   timing_count |-> w.learn_state.timing_count]

\* What the caller has read through the signal pointer of its last
\* IR_LEARN_COMPLETED notification, at the time of the notification.
NoReceived ==
  [present |-> FALSE, name |-> "", valid |-> FALSE, timing_count |-> 0,
   timings |-> <<>>]

\* What that pointer leads to: learn_state.current_signal and, through its
\* timings pointer, the capture buffer.
Pointed(w) ==
  [present |-> TRUE, name |-> w.learn_state.name, valid |-> w.learn_state.valid,
   timing_count |-> w.learn_state.timing_count, timings |-> w.timing_buffer]

\* if (learn_state.callback) learn_state.callback(status, signal, user_data);
\* `by` records which context delivered it and `accepted` the edges accepted so
\* far in the session (history, not passed to the callback).
Notify(w, status, signal, by) ==
  IF w.learn_state.callback = "NULL" THEN w
  ELSE [w EXCEPT !.notes = Append(@, [status |-> status, signal |-> signal,
                                      by |-> by,
                                      accepted |-> w.hist.accepted]),
                 !.hist.received = IF status = "IR_LEARN_COMPLETED"
                                   THEN Pointed(w) ELSE @]

\* ir_hal_rx_stop; the history records a call made while learn_state.active
\* is still set.
ir_hal_rx_stop(w) ==
  [w EXCEPT !.rx_state.active = FALSE, !.rx_state.irq = FALSE,
            !.hist.stopped_active = @ \/ w.learn_state.active]

signal_end_handler_StopsFirst(w, timer) ==
  IF ~w.learn_state.active \/ w.learn_state.edge_count = 0 THEN w
  ELSE LET w1 == ir_hal_rx_stop(w)
           w2 == [w1 EXCEPT
                    !.learn_state.timing_count = w.learn_state.edge_count % 65536,
                    !.learn_state.valid = TRUE,
                    !.learn_state.active = FALSE]
       IN Notify(w2, "IR_LEARN_COMPLETED", CurrentSignal(w2), timer)

signal_end_handler_NoEdgeCheck(w, timer) ==
  IF ~w.learn_state.active THEN w
  ELSE LET w1 == [w EXCEPT
                    !.learn_state.timing_count = w.learn_state.edge_count % 65536,
                    !.learn_state.valid = TRUE,
                    !.learn_state.active = FALSE]
           w2 == ir_hal_rx_stop(w1)
       IN Notify(w2, "IR_LEARN_COMPLETED", CurrentSignal(w2), timer)

signal_end_handler_NoCount(w, timer) ==
  IF ~w.learn_state.active \/ w.learn_state.edge_count = 0 THEN w
  ELSE LET w1 == [w EXCEPT !.learn_state.valid = TRUE,
                           !.learn_state.active = FALSE]
           w2 == ir_hal_rx_stop(w1)
       IN Notify(w2, "IR_LEARN_COMPLETED", CurrentSignal(w2), timer)

\* signal_end_handler(timer): timer is "end_timer" on expiry and "NULL" when
\* learning_rx_callback calls it on a full buffer.
signal_end_handler(w, timer) ==
  IF ~w.learn_state.active \/ w.learn_state.edge_count = 0 THEN w
  ELSE LET w1 == [w EXCEPT
                    !.learn_state.timing_count = w.learn_state.edge_count % 65536,
                    !.learn_state.valid = TRUE,
                    !.learn_state.active = FALSE]
           w2 == ir_hal_rx_stop(w1)
       IN Notify(w2, "IR_LEARN_COMPLETED", CurrentSignal(w2), timer)

learning_timeout_handler_KeepsRx(w) ==
  IF ~w.learn_state.active THEN w
  ELSE Notify([w EXCEPT !.learn_state.active = FALSE],
              "IR_LEARN_TIMEOUT", NullSignal, "timeout_timer")

learning_timeout_handler_MarksValid(w) ==
  IF ~w.learn_state.active THEN w
  ELSE Notify(ir_hal_rx_stop([w EXCEPT !.learn_state.active = FALSE,
                                       !.learn_state.valid = TRUE]),
              "IR_LEARN_TIMEOUT", NullSignal, "timeout_timer")

learning_timeout_handler_NoCheck(w) ==
  Notify(ir_hal_rx_stop([w EXCEPT !.learn_state.active = FALSE]),
         "IR_LEARN_TIMEOUT", NullSignal, "timeout_timer")

\* learning_timeout_handler
learning_timeout_handler(w) ==
  IF ~w.learn_state.active THEN w
  ELSE Notify(ir_hal_rx_stop([w EXCEPT !.learn_state.active = FALSE]),
              "IR_LEARN_TIMEOUT", NullSignal, "timeout_timer")

\* timings[idx] = value on the heap array; the sequence holds the array up to
\* its last element written since it was zeroed.
WriteTiming(buffer, idx, value) ==
  [k \in 1..(IF idx + 1 > Len(buffer) THEN idx + 1 ELSE Len(buffer)) |->
     IF k = idx + 1 THEN value
     ELSE IF k <= Len(buffer) THEN buffer[k] ELSE 0]

\* if (pulse->duration_us < MIN_PULSE_US)
IsNoise_Never(pulse) == FALSE
IsNoise(pulse) == pulse.duration_us < MIN_PULSE_US

\* if (learn_state.edge_count == 0)
FirstPulse_Always(w) == TRUE
FirstPulse(w) == w.learn_state.edge_count = 0

\* if (learn_state.edge_count >= IR_LEARNING_MAX_EDGES)
BufferFull_OffByOne(w) == w.learn_state.edge_count > IR_LEARNING_MAX_EDGES
BufferFull(w) == w.learn_state.edge_count >= IR_LEARNING_MAX_EDGES

\* The full-buffer branch: k_timer_stop(&learn_state.end_timer);
\* signal_end_handler(NULL); return;
OverflowEnd_AsError(w) ==
  Notify(ir_hal_rx_stop([w EXCEPT !.learn_state.active = FALSE,
                                  !.end_timer = FALSE]),
         "IR_LEARN_ERROR", NullSignal, "NULL")
OverflowEnd(w) == signal_end_handler([w EXCEPT !.end_timer = FALSE], "NULL")

\* learning_rx_callback(pulse, user_data)
learning_rx_callback(w, pulse) ==
  IF ~w.learn_state.active THEN [w EXCEPT !.hist.ignored = TRUE]
  ELSE IF IsNoise(pulse)
  THEN [w EXCEPT !.hist.noise = TRUE]
  ELSE IF w.learn_state.timings_ptr = "NULL"
  THEN Notify(ir_hal_rx_stop([w EXCEPT !.learn_state.active = FALSE]),
              "IR_LEARN_ERROR", NullSignal, "edge")
  ELSE
    LET w1 == [w EXCEPT !.hist.accepted = @ + 1]
        w2 == IF FirstPulse(w1)
              THEN Notify(w1, "IR_LEARN_RECEIVING", NullSignal, "edge")
              ELSE w1
    IN IF BufferFull(w2)
       THEN OverflowEnd(w2)
       ELSE [w2 EXCEPT
               !.timing_buffer = WriteTiming(@, w2.learn_state.edge_count,
                                             pulse.duration_us),
               !.learn_state.edge_count = @ + 1,
               !.end_timer = TRUE,
               !.hist.end_armed_by = w2.hist.session,
               !.hist.alternates =
                  @ /\ (pulse.is_mark = (w2.learn_state.edge_count % 2 = 0))]

\* gpio_callback_handler: the time since the last edge is `duration` and
\* gpio_pin_get returns current_state (1, 0, or -1 for an error).
gpio_callback_handler(w, duration, current_state) ==
  IF ~w.rx_state.active THEN w
  ELSE IF current_state < 0 THEN w
  ELSE LET w1 == IF /\ w.rx_state.have_last
                    /\ duration > 0 /\ duration < IR_MAX_PULSE_US
                 THEN learning_rx_callback(w,
                        [duration_us |-> duration,
                         is_mark |-> ~w.rx_state.last_state])
                 ELSE w
       IN [w1 EXCEPT !.rx_state.have_last = TRUE,
                     !.rx_state.last_state = (current_state # 0)]

\* The levels gpio_pin_get may return at an edge: either level at the first
\* edge after ir_hal_rx_start, afterwards the opposite of the level at the
\* edge before; -1 when the driver fails.
PinLevels(rx) ==
  IF rx.have_last THEN {IF rx.last_state THEN 0 ELSE 1, -1} ELSE {0, 1, -1}

\* ---- interrupt handlers, at any point of the thread's execution ----

\* An edge on the receiver pin while its interrupt is enabled.
GpioEdge ==
  /\ rx_state.irq
  /\ hist.edges < MaxEdges
  /\ \E d \in Durations, level \in PinLevels(rx_state) :
       Becomes([gpio_callback_handler(World, d, level) EXCEPT
                  !.hist.edges = IF rx_state.have_last THEN @ + 1 ELSE @,
                  !.hist.long = @ \/ ( /\ rx_state.active
                                       /\ level >= 0
                                       /\ rx_state.have_last
                                       /\ learn_state.active
                                       /\ d >= MIN_PULSE_US
                                       /\ d < IR_MAX_PULSE_US )])
  /\ UNCHANGED <<pc, call>>
  /\ UNCHANGED notLearnVars

\* The idle (end of signal) timer expires: one shot, then its expiry function.
\* The history counts the expiries in an active session with edges, and
\* records one in an active session without (end_idle).
EndTimerExpires ==
  /\ end_timer
  /\ Becomes(signal_end_handler(
       [World EXCEPT !.end_timer = FALSE,
                     !.hist.end_expired =
                        IF learn_state.active /\ learn_state.edge_count > 0
                        THEN @ + 1 ELSE @,
                     !.hist.end_idle =
                        @ \/ ( /\ learn_state.active
                               /\ learn_state.edge_count = 0 )],
       "end_timer"))
  /\ UNCHANGED <<pc, call>>
  /\ UNCHANGED notLearnVars

\* The session timeout timer expires.
TimeoutTimerExpires ==
  /\ timeout_timer
  /\ Becomes(learning_timeout_handler([World EXCEPT !.timeout_timer = FALSE]))
  /\ UNCHANGED <<pc, call>>
  /\ UNCHANGED notLearnVars

\* ---- the calling thread ----

ZeroLearnState ==
  [name |-> "", timings_ptr |-> "NULL", timing_count |-> 0, valid |-> FALSE,
   callback |-> "NULL", active |-> FALSE, edge_count |-> 0]

\* ir_learning_init: k_malloc gives the buffer or NULL.
LearningInit ==
  /\ pc = "boot"
  /\ \E p \in {"buf", "NULL"} :
       /\ learn_state' = [ZeroLearnState EXCEPT !.timings_ptr = p]
       /\ call' = [fn |-> "init", name |-> "", callback |-> "NULL",
                   ret |-> IF p = "NULL" THEN "-ENOMEM" ELSE "0"]
  /\ timing_buffer' = <<>>
  /\ timeout_timer' = FALSE
  /\ end_timer' = FALSE
  /\ pc' = "idle"
  /\ UNCHANGED <<rx_state, notes, hist>>
  /\ UNCHANGED notLearnVars

StartCall_ResetsFirst ==
  /\ pc = "idle"
  /\ hist.session < MaxSessions
  /\ \E n \in SignalNames, cb \in Callbacks :
       call' = [fn |-> "start", name |-> n, callback |-> cb,
                ret |-> IF learn_state.active THEN "-EBUSY" ELSE "running"]
  /\ pc' = IF learn_state.active THEN "idle" ELSE "start_check_buffer"
  /\ learn_state' = [learn_state EXCEPT !.edge_count = 0]
  /\ UNCHANGED <<timing_buffer, timeout_timer, end_timer, rx_state, notes,
                 hist>>
  /\ UNCHANGED notLearnVars

\* ir_learning_start is called: if (learn_state.active) return -EBUSY;
StartCall ==
  /\ pc = "idle"
  /\ hist.session < MaxSessions
  /\ \E n \in SignalNames, cb \in Callbacks :
       call' = [fn |-> "start", name |-> n, callback |-> cb,
                ret |-> IF learn_state.active THEN "-EBUSY" ELSE "running"]
  /\ pc' = IF learn_state.active THEN "idle" ELSE "start_check_buffer"
  /\ UNCHANGED <<learn_state, timing_buffer, timeout_timer, end_timer,
                 rx_state, notes, hist>>
  /\ UNCHANGED notLearnVars

\* if (!learn_state.current_signal.timings) return -EINVAL;
StartCheckBuffer ==
  /\ pc = "start_check_buffer"
  /\ IF learn_state.timings_ptr = "NULL"
     THEN pc' = "idle" /\ call' = [call EXCEPT !.ret = "-EINVAL"]
     ELSE pc' = "start_memset" /\ UNCHANGED call
  /\ UNCHANGED <<learn_state, timing_buffer, timeout_timer, end_timer,
                 rx_state, notes, hist>>
  /\ UNCHANGED notLearnVars

\* The local timings_backup of ir_learning_start: the pointer that passed the
\* test before, which is the buffer of ir_learning_init.
timings_backup == "buf"

\* timings_backup = learn_state.current_signal.timings;
\* memset(&learn_state.current_signal, 0, sizeof(ir_learned_signal_t));
\* the timings pointer is zero until the next statement restores it.
StartMemset ==
  /\ pc = "start_memset"
  /\ learn_state' = [learn_state EXCEPT
                       !.name = "", !.timings_ptr = "NULL",
                       !.timing_count = 0, !.valid = FALSE]
  /\ pc' = "start_reset"
  /\ UNCHANGED <<timing_buffer, timeout_timer, end_timer, rx_state, call,
                 notes, hist>>
  /\ UNCHANGED notLearnVars

StartReset_NoRestore ==
  /\ pc = "start_reset"
  /\ learn_state' = [learn_state EXCEPT
                       !.name = call.name, !.edge_count = 0,
                       !.callback = call.callback, !.active = TRUE]
  /\ timing_buffer' = <<>>
  /\ notes' = <<>>
  /\ hist' = [hist EXCEPT !.session = @ + 1, !.accepted = 0, !.noise = FALSE,
                          !.long = FALSE, !.ignored = FALSE,
                          !.alternates = TRUE, !.end_expired = 0,
                          !.end_idle = FALSE]
  /\ pc' = "start_rx"
  /\ UNCHANGED <<timeout_timer, end_timer, rx_state, call>>
  /\ UNCHANGED notLearnVars

\* current_signal.timings = timings_backup, the zeroing of the buffer,
\* edge_count = 0, name, callback, user_data, active = true.
\* (No handler acts while active is false and the edge source is stopped, so
\* the statements up to active = true are taken as one step.)
StartReset ==
  /\ pc = "start_reset"
  /\ learn_state' = [learn_state EXCEPT
                       !.timings_ptr = timings_backup,
                       !.name = call.name, !.edge_count = 0,
                       !.callback = call.callback, !.active = TRUE]
  /\ timing_buffer' = <<>>
  /\ notes' = <<>>
  /\ hist' = [hist EXCEPT !.session = @ + 1, !.accepted = 0, !.noise = FALSE,
                          !.long = FALSE, !.ignored = FALSE,
                          !.alternates = TRUE, !.end_expired = 0,
                          !.end_idle = FALSE]
  /\ pc' = "start_rx"
  /\ UNCHANGED <<timeout_timer, end_timer, rx_state, call>>
  /\ UNCHANGED notLearnVars

\* ret = ir_hal_rx_start(learning_rx_callback, NULL): rx_state is set, then the
\* pin interrupt is enabled, which may fail.
StartRx ==
  /\ pc = "start_rx"
  /\ \E ok \in BOOLEAN :
       /\ rx_state' = [active |-> TRUE, have_last |-> FALSE,
                       last_state |-> FALSE, irq |-> ok]
       /\ pc' = IF ok THEN "start_timer" ELSE "start_rx_failed"
  /\ UNCHANGED <<learn_state, timing_buffer, timeout_timer, end_timer,
                 call, notes, hist>>
  /\ UNCHANGED notLearnVars

\* if (ret < 0) { learn_state.active = false; return ret; }
StartRxFailed ==
  /\ pc = "start_rx_failed"
  /\ learn_state' = [learn_state EXCEPT !.active = FALSE]
  /\ call' = [call EXCEPT !.ret = "-EIO"]
  /\ pc' = "idle"
  /\ UNCHANGED <<timing_buffer, timeout_timer, end_timer, rx_state, notes,
                 hist>>
  /\ UNCHANGED notLearnVars

\* k_timer_start(&learn_state.timeout_timer, K_MSEC(timeout), K_NO_WAIT);
StartTimer ==
  /\ pc = "start_timer"
  /\ timeout_timer' = TRUE
  /\ pc' = "start_notify"
  /\ UNCHANGED <<learn_state, timing_buffer, end_timer, rx_state, call,
                 notes, hist>>
  /\ UNCHANGED notLearnVars

\* if (callback) callback(IR_LEARN_WAITING, NULL, user_data); return 0;
StartNotify ==
  /\ pc = "start_notify"
  /\ notes' = IF call.callback = "NULL" THEN notes
              ELSE Append(notes, [status |-> "IR_LEARN_WAITING",
                                  signal |-> NullSignal, by |-> "start",
                                  accepted |-> hist.accepted])
  /\ call' = [call EXCEPT !.ret = "0"]
  /\ pc' = "idle"
  /\ UNCHANGED <<learn_state, timing_buffer, timeout_timer, end_timer,
                 rx_state, hist>>
  /\ UNCHANGED notLearnVars

\* ir_learning_stop is called: if (!learn_state.active) return 0;
StopCall ==
  /\ pc = "idle"
  /\ call' = [fn |-> "stop", name |-> "", callback |-> "NULL",
              ret |-> IF learn_state.active THEN "running" ELSE "0"]
  /\ pc' = IF learn_state.active THEN "stop_clear" ELSE "idle"
  /\ UNCHANGED <<learn_state, timing_buffer, timeout_timer, end_timer,
                 rx_state, notes, hist>>
  /\ UNCHANGED notLearnVars

\* learn_state.active = false;
StopClear ==
  /\ pc = "stop_clear"
  /\ learn_state' = [learn_state EXCEPT !.active = FALSE]
  /\ pc' = "stop_timers"
  /\ UNCHANGED <<timing_buffer, timeout_timer, end_timer, rx_state, call,
                 notes, hist>>
  /\ UNCHANGED notLearnVars

StopTimers_OnlyTimeout ==
  /\ pc = "stop_timers"
  /\ timeout_timer' = FALSE
  /\ pc' = "stop_rx"
  /\ UNCHANGED <<learn_state, timing_buffer, end_timer, rx_state, call, notes,
                 hist>>
  /\ UNCHANGED notLearnVars

\* k_timer_stop(&learn_state.timeout_timer); k_timer_stop(&learn_state.end_timer);
StopTimers ==
  /\ pc = "stop_timers"
  /\ timeout_timer' = FALSE
  /\ end_timer' = FALSE
  /\ pc' = "stop_rx"
  /\ UNCHANGED <<learn_state, timing_buffer, rx_state, call, notes, hist>>
  /\ UNCHANGED notLearnVars

\* ir_hal_rx_stop(); return 0;
StopRx ==
  /\ pc = "stop_rx"
  /\ Becomes(ir_hal_rx_stop(World))
  /\ call' = [call EXCEPT !.ret = "0"]
  /\ pc' = "idle"
  /\ UNCHANGED notLearnVars

NextLearn ==
  \/ LearningInit
  \/ StartCall \/ StartCheckBuffer \/ StartMemset \/ StartReset \/ StartRx
  \/ StartRxFailed
  \/ StartTimer \/ StartNotify
  \/ StopCall \/ StopClear \/ StopTimers \/ StopRx
  \/ GpioEdge \/ EndTimerExpires \/ TimeoutTimerExpires

\* Before ir_learning_init: the zeroed statics of ir_learning.c and ir_hal.c.
LearnBoot ==
  /\ learn_state = ZeroLearnState
  /\ timing_buffer = <<>>
  /\ timeout_timer = FALSE
  /\ end_timer = FALSE
  /\ rx_state = [active |-> FALSE, have_last |-> FALSE,
                 last_state |-> FALSE, irq |-> FALSE]
  /\ pc = "boot"
  /\ call = [fn |-> "none", name |-> "", callback |-> "NULL", ret |-> "none"]
  /\ notes = <<>>
  /\ hist = [accepted |-> 0, noise |-> FALSE, long |-> FALSE, edges |-> 0,
             session |-> 0, ignored |-> FALSE, stopped_active |-> FALSE,
             alternates |-> TRUE, received |-> NoReceived,
             end_armed_by |-> 0, end_expired |-> 0, end_idle |-> FALSE]

\* A first session in progress that has recorded PreFill pulses of 600 us,
\* marks and spaces in turn, and awaits the end of the next mark: the
\* state after ir_learning_init, ir_learning_start("Power", learning_callback)
\* and PreFill + 1 edges.
LearnNearlyFull ==
  /\ learn_state = [name |-> "Power", timings_ptr |-> "buf", timing_count |-> 0,
                    valid |-> FALSE, callback |-> "learning_callback",
                    active |-> TRUE, edge_count |-> PreFill]
  /\ timing_buffer = [k \in 1..PreFill |-> 600]
  /\ timeout_timer = TRUE
  /\ end_timer = TRUE
  /\ rx_state = [active |-> TRUE, have_last |-> TRUE, last_state |-> FALSE,
                 irq |-> TRUE]
  /\ pc = "idle"
  /\ call = [fn |-> "start", name |-> "Power",
             callback |-> "learning_callback", ret |-> "0"]
  /\ notes = << [status |-> "IR_LEARN_WAITING", signal |-> NullSignal,
                 by |-> "start", accepted |-> 0],
                [status |-> "IR_LEARN_RECEIVING", signal |-> NullSignal,
                 by |-> "edge", accepted |-> 1] >>
  /\ hist = [accepted |-> PreFill, noise |-> FALSE, long |-> TRUE, edges |-> 0,
             session |-> 1, ignored |-> FALSE, stopped_active |-> FALSE,
             alternates |-> TRUE, received |-> NoReceived,
             end_armed_by |-> 1, end_expired |-> 0, end_idle |-> FALSE]

(***************************************************************************)
(*                  The database cache (irdb_loader.c)                     *)
(***************************************************************************)
IRDB_CACHE_SIZE == 4

\* An uint32_t time stamp as its two 16 bit halves.
Half == 2^16
U32(hi, lo) == [hi |-> hi, lo |-> lo]
UINT32_MAX == U32(Half - 1, Half - 1)

\* a < b on uint32_t
Less32(a, b) == a.hi < b.hi \/ (a.hi = b.hi /\ a.lo < b.lo)

\* a + 1 on uint32_t
Inc32(a) ==
  IF a.lo < Half - 1 THEN U32(a.hi, a.lo + 1)
  ELSE U32((a.hi + 1) % Half, 0)

\* k_uptime_get_32(): the low 32 bits of the uptime in ms.
k_uptime_get_32 == now

\* The paths the callers use as keys.
CachePaths == {"nec/tv", "nec/vcr", "sony/tv", "sony/cd", "rc5/tv"}

\* Heap addresses: the array of the caller's database (irdb_parse_csv) and
\* the arrays k_malloc hands to irdb_cache_put. heap[a] is "free" for memory
\* that is not allocated, else what the array holds: the entries of the file
\* at a path, or "changed" once the caller has rewritten them.
CacheBlocks == {"m0", "m1", "m2", "m3"}
Addresses == CacheBlocks \cup {"caller"}

\* The database a caller has loaded from path; its entries are at "caller".
CallerDatabase(path) ==
  [manufacturer |-> path, device_type |-> path, entries |-> "caller",
   entry_count |-> 2]

\* Bounds of the cache runs: calls, ms ticks and failing allocations.
MaxCacheOps == 4
MaxTicks == 2
MaxAllocFailures == 1

Slots == 0..(IRDB_CACHE_SIZE - 1)

\* memset(db, 0, sizeof(irdb_database_t))
ZeroDatabase ==
  [manufacturer |-> "", device_type |-> "", entries |-> "NULL",
   entry_count |-> 0]

\* A slot of the zero-initialised static array.
ZeroSlot ==
  [path |-> "", database |-> ZeroDatabase, last_access |-> U32(0, 0),
   valid |-> FALSE]

\* irdb_free_database(db): the database afterwards, and the heap afterwards.
irdb_free_database(db) == IF db.entries # "NULL" THEN ZeroDatabase ELSE db
FreeEntries(h, db) ==
  IF db.entries # "NULL" THEN [h EXCEPT ![db.entries] = "free"] ELSE h

\* k_malloc(size): an address of free memory, or NULL when it fails.
k_malloc(h, succeeds) ==
  IF succeeds /\ \E a \in CacheBlocks : h[a] = "free"
  THEN CHOOSE a \in CacheBlocks : h[a] = "free"
  ELSE "NULL"

\* The loop of irdb_cache_get: the first valid slot with the path, or -1.
RECURSIVE GetScan(_, _, _)
GetScan(c, path, i) ==
  IF i = IRDB_CACHE_SIZE THEN -1
  ELSE IF c[i].valid /\ c[i].path = path THEN i
  ELSE GetScan(c, path, i + 1)

\* irdb_cache_get(path, db_out)
irdb_cache_get(c, path) ==
  LET i == GetScan(c, path, 0)
  IN IF i # -1
     THEN [ret |-> "0", slot |-> i,
           cache |-> [c EXCEPT ![i].last_access = k_uptime_get_32]]
     ELSE [ret |-> "-ENOENT", slot |-> -1, cache |-> c]

RECURSIVE PutScan_LastOldest(_, _, _, _)
PutScan_LastOldest(c, i, target_idx, oldest_time) ==
  IF i = IRDB_CACHE_SIZE THEN target_idx
  ELSE IF ~c[i].valid THEN i
  ELSE IF ~Less32(oldest_time, c[i].last_access)
       THEN PutScan_LastOldest(c, i + 1, i, c[i].last_access)
       ELSE PutScan_LastOldest(c, i + 1, target_idx, oldest_time)

\* The loop of irdb_cache_put: the first invalid slot or, of the valid ones,
\* the first whose last_access is below every one before it.
RECURSIVE PutScan(_, _, _, _)
PutScan(c, i, target_idx, oldest_time) ==
  IF i = IRDB_CACHE_SIZE THEN target_idx
  ELSE IF ~c[i].valid THEN i
  ELSE IF Less32(c[i].last_access, oldest_time)
       THEN PutScan(c, i + 1, i, c[i].last_access)
       ELSE PutScan(c, i + 1, target_idx, oldest_time)

\* cache[target_idx].database.entries = k_malloc(...)
StoredEntries_Shallow(allocated, db) == db.entries
StoredEntries(allocated, db) == allocated

\* irdb_cache_put(path, db) on the slots c and the heap h; succeeds tells
\* whether its k_malloc does.
irdb_cache_put(c, h, path, db, succeeds) ==
  LET target_idx == PutScan(c, 0, 0, UINT32_MAX)
      c1 == IF c[target_idx].valid
            THEN [c EXCEPT ![target_idx].database = irdb_free_database(@)]
            ELSE c
      h1 == IF c[target_idx].valid
            THEN FreeEntries(h, c[target_idx].database)
            ELSE h
      entries == StoredEntries(k_malloc(h1, succeeds), db)
      c2 == [c1 EXCEPT ![target_idx].path = path,
                       ![target_idx].database.entry_count = db.entry_count,
                       ![target_idx].database.entries = entries]
  IN IF entries = "NULL"
     THEN [ret |-> "-ENOMEM", slot |-> target_idx, cache |-> c2, heap |-> h1]
     ELSE [ret |-> "0", slot |-> target_idx,
           cache |-> [c2 EXCEPT
              ![target_idx].database.manufacturer = db.manufacturer,
              ![target_idx].database.device_type = db.device_type,
              ![target_idx].last_access = k_uptime_get_32,
              ![target_idx].valid = TRUE],
           heap |-> [h1 EXCEPT ![entries] = h1[db.entries]]]

\* irdb_cache_clear() on the slots c and the heap h
RECURSIVE ClearFrom(_, _, _)
ClearFrom(c, h, i) ==
  IF i = IRDB_CACHE_SIZE THEN [cache |-> c, heap |-> h]
  ELSE IF c[i].valid
       THEN ClearFrom([c EXCEPT ![i].database = irdb_free_database(@),
                                ![i].valid = FALSE],
                      FreeEntries(h, c[i].database), i + 1)
       ELSE ClearFrom(c, h, i + 1)

irdb_cache_clear(c, h) == ClearFrom(c, h, 0)

\* History: path becomes the most recently accessed one.
Touch(recent, path) ==
  Append(SelectSeq(recent, LAMBDA p : p # path), path)

\* A thread calls irdb_cache_get; the call runs under cache_mutex.
CacheGet ==
  /\ cache_hist.ops < MaxCacheOps
  /\ \E path \in CachePaths :
       LET r == irdb_cache_get(cache, path)
       IN /\ cache' = r.cache
          /\ cache_hist' = [cache_hist EXCEPT
               !.ops = @ + 1,
               !.last = [op |-> "get", path |-> path, ret |-> r.ret,
                         slot |-> r.slot],
               !.recent = IF r.ret = "0" THEN Touch(@, path) ELSE @]
  /\ UNCHANGED <<now, heap, caller, threadVars>>
  /\ UNCHANGED notCacheVars

\* A thread loads the database of a path (releasing the one it held) and
\* calls irdb_cache_put with it.
CachePut ==
  /\ cache_hist.ops < MaxCacheOps
  /\ \E path \in CachePaths, ok \in BOOLEAN :
       /\ ~ok => cache_hist.failures < MaxAllocFailures
       /\ LET db == CallerDatabase(path)
              r == irdb_cache_put(cache, [heap EXCEPT ![db.entries] = path],
                                  path, db, ok)
          IN /\ cache' = r.cache
             /\ heap' = r.heap
             /\ caller' = db
             /\ cache_hist' = [cache_hist EXCEPT
                  !.ops = @ + 1,
                  !.failures = IF ok THEN @ ELSE @ + 1,
                  !.last = [op |-> "put", path |-> path, ret |-> r.ret,
                            slot |-> r.slot],
                  !.recent = IF r.ret = "0" THEN Touch(@, path) ELSE @]
  /\ UNCHANGED <<now, threadVars>>
  /\ UNCHANGED notCacheVars

\* A thread calls irdb_cache_clear.
CacheClear ==
  /\ cache_hist.ops < MaxCacheOps
  /\ LET r == irdb_cache_clear(cache, heap)
     IN cache' = r.cache /\ heap' = r.heap
  /\ cache_hist' = [cache_hist EXCEPT
       !.ops = @ + 1,
       !.last = [op |-> "clear", path |-> "", ret |-> "0", slot |-> -1]]
  /\ UNCHANGED <<now, caller, threadVars>>
  /\ UNCHANGED notCacheVars

\* The thread that called irdb_cache_put rewrites the database it passed:
\* its entries in place, and its two labels.
CallerChanges ==
  /\ caller.entries # "NULL"
  /\ heap[caller.entries] # "changed"
  /\ heap' = [heap EXCEPT ![caller.entries] = "changed"]
  /\ caller' = [caller EXCEPT !.manufacturer = "changed",
                              !.device_type = "changed"]
  /\ UNCHANGED <<cache, now, cache_hist, threadVars>>
  /\ UNCHANGED notCacheVars

\* The thread that called irdb_cache_put frees the database it passed.
CallerFrees ==
  /\ caller.entries # "NULL"
  /\ heap' = FreeEntries(heap, caller)
  /\ caller' = irdb_free_database(caller)
  /\ UNCHANGED <<cache, now, cache_hist, threadVars>>
  /\ UNCHANGED notCacheVars

\* A millisecond of uptime passes.
Tick ==
  /\ cache_hist.ticks < MaxTicks
  /\ now' = Inc32(now)
  /\ cache_hist' = [cache_hist EXCEPT !.ticks = @ + 1]
  /\ UNCHANGED <<cache, heap, caller, threadVars>>
  /\ UNCHANGED notCacheVars

NextCache ==
  CacheGet \/ CachePut \/ CacheClear \/ CallerChanges \/ CallerFrees \/ Tick

NoCacheHist ==
  [ops |-> 0, ticks |-> 0, failures |-> 0, recent |-> <<>>,
   last |-> [op |-> "none", path |-> "", ret |-> "none", slot |-> -1]]

\* The threads that call the cache concurrently, the paths they use, and
\* the number of calls each makes.
Threads == {"t1", "t2"}
ThreadPaths == {"nec/tv", "rc5/tv"}
MaxThreadCalls == 2

\* What a thread reads of a database: its fields, and the entries behind its
\* entries pointer.
NoView ==
  [present |-> FALSE, manufacturer |-> "", device_type |-> "",
   entries |-> "", entry_count |-> 0]
View(db, h) ==
  [present |-> TRUE, manufacturer |-> db.manufacturer,
   device_type |-> db.device_type,
   entries |-> IF db.entries = "NULL" THEN "NULL" ELSE h[db.entries],
   entry_count |-> db.entry_count]

\* A thread outside the cache: db_out is the slot its irdb_database_t pointer
\* leads to (-1: not set), got what it read there when irdb_cache_get
\* returned, seen what it read there last.
IdleThread ==
  [pc |-> "idle", op |-> "none", path |-> "", target_idx |-> 0,
   db_out |-> -1, ret |-> "none", calls |-> 0, got |-> NoView,
   seen |-> NoView]

ThreadsIdle ==
  /\ cache_mutex = "none"
  /\ threads = [t \in Threads |-> IdleThread]

\* The cache at boot.
CacheBoot ==
  /\ cache = [i \in Slots |-> ZeroSlot]
  /\ now = U32(0, 0)
  /\ cache_hist = NoCacheHist
  /\ heap = [a \in Addresses |-> "free"]
  /\ caller = ZeroDatabase
  /\ ThreadsIdle

\* A slot as a successful irdb_cache_put of path at time t leaves it, with
\* the copy of the entries at the address a.
FilledSlot(path, a, t) ==
  [path |-> path,
   database |-> [CallerDatabase(path) EXCEPT !.entries = a],
   last_access |-> t, valid |-> TRUE]

\* The cache after 2^32 - 2 ms (49.7 days) of uptime, two calls of
\* irdb_cache_put, one ms, and two more calls of irdb_cache_put, each by a
\* caller that freed its database afterwards.
CacheFull ==
  /\ cache = [i \in Slots |->
               CASE i = 0 -> FilledSlot("nec/tv", "m0", U32(Half - 1, Half - 2))
                 [] i = 1 -> FilledSlot("nec/vcr", "m1", U32(Half - 1, Half - 2))
                 [] i = 2 -> FilledSlot("sony/tv", "m2", UINT32_MAX)
                 [] i = 3 -> FilledSlot("sony/cd", "m3", UINT32_MAX)]
  /\ now = UINT32_MAX
  /\ cache_hist = [NoCacheHist EXCEPT
                     !.recent = <<"nec/tv", "nec/vcr", "sony/tv", "sony/cd">>]
  /\ heap = [a \in Addresses |->
               CASE a = "m0" -> "nec/tv"
                 [] a = "m1" -> "nec/vcr"
                 [] a = "m2" -> "sony/tv"
                 [] a = "m3" -> "sony/cd"
                 [] OTHER -> "free"]
  /\ caller = ZeroDatabase
  /\ ThreadsIdle

(***************************************************************************)
(*   The database cache called by several threads: irdb_cache_get,         *)
(*   irdb_cache_put and irdb_cache_clear statement by statement, under     *)
(*   cache_mutex, and the callers' reads through the pointer that          *)
(*   irdb_cache_get hands out.                                             *)
(***************************************************************************)
\* The frame of a step of thread code on the cache.
ThreadFrame ==
  /\ UNCHANGED <<now, cache_hist, caller>>
  /\ UNCHANGED notCacheVars

\* A thread calls one of the three functions: if (!path || !db_out) return
\* -EINVAL; (irdb_cache_put: !path || !db), else on to k_mutex_lock.
ThreadCall ==
  /\ \E t \in Threads :
       /\ threads[t].pc = "idle"
       /\ threads[t].calls < MaxThreadCalls
       /\ \E op \in {"get", "put", "clear"},
             path \in ThreadPaths \cup {"NULL"} :
            /\ op = "clear" => path = "NULL"
            /\ threads' =
                 [threads EXCEPT ![t] =
                    IF op # "clear" /\ path = "NULL"
                    THEN [@ EXCEPT !.op = op, !.path = path,
                                   !.ret = "-EINVAL", !.calls = @ + 1]
                    ELSE [@ EXCEPT !.op = op, !.path = path,
                                   !.ret = "running", !.pc = "lock"]]
  /\ UNCHANGED <<cache, heap, cache_mutex>>
  /\ ThreadFrame

\* k_mutex_lock(&cache_mutex, K_FOREVER): waits while another thread owns it.
ThreadLock ==
  /\ \E t \in Threads :
       /\ threads[t].pc = "lock"
       /\ cache_mutex = "none"
       /\ cache_mutex' = t
       /\ threads' = [threads EXCEPT ![t].pc = threads[t].op]
  /\ UNCHANGED <<cache, heap>>
  /\ ThreadFrame

\* The loop of irdb_cache_get: on a hit last_access is stamped and *db_out
\* set to the address of the slot's database.
ThreadGet ==
  /\ \E t \in Threads :
       /\ threads[t].pc = "get"
       /\ cache_mutex = t
       /\ LET r == irdb_cache_get(cache, threads[t].path)
          IN /\ cache' = r.cache
             /\ threads' =
                  [threads EXCEPT ![t] =
                     IF r.ret = "0"
                     THEN [@ EXCEPT !.ret = r.ret, !.pc = "unlock",
                                    !.db_out = r.slot,
                                    !.got = View(r.cache[r.slot].database,
                                                 heap),
                                    !.seen = NoView]
                     ELSE [@ EXCEPT !.ret = r.ret, !.pc = "unlock"]]
  /\ UNCHANGED <<heap, cache_mutex>>
  /\ ThreadFrame

\* The loop of irdb_cache_put that picks target_idx.
ThreadPutScan ==
  /\ \E t \in Threads :
       /\ threads[t].pc = "put"
       /\ cache_mutex = t
       /\ threads' = [threads EXCEPT
                        ![t].target_idx = PutScan(cache, 0, 0, UINT32_MAX),
                        ![t].pc = "put_free"]
  /\ UNCHANGED <<cache, heap, cache_mutex>>
  /\ ThreadFrame

\* if (cache[target_idx].valid) irdb_free_database(&cache[target_idx].database);
ThreadPutFree ==
  /\ \E t \in Threads :
       LET i == threads[t].target_idx
       IN /\ threads[t].pc = "put_free"
          /\ cache_mutex = t
          /\ IF cache[i].valid
             THEN /\ cache' = [cache EXCEPT
                                 ![i].database = irdb_free_database(@)]
                  /\ heap' = FreeEntries(heap, cache[i].database)
             ELSE UNCHANGED <<cache, heap>>
          /\ threads' = [threads EXCEPT ![t].pc = "put_path"]
  /\ UNCHANGED cache_mutex
  /\ ThreadFrame

\* strncpy(cache[target_idx].path, path, ...);
ThreadPutPath ==
  /\ \E t \in Threads :
       /\ threads[t].pc = "put_path"
       /\ cache_mutex = t
       /\ cache' = [cache EXCEPT
                      ![threads[t].target_idx].path = threads[t].path]
       /\ threads' = [threads EXCEPT ![t].pc = "put_alloc"]
  /\ UNCHANGED <<heap, cache_mutex>>
  /\ ThreadFrame

\* entry_count = db->entry_count; entries = k_malloc(...); on NULL the mutex
\* is released and -ENOMEM returned. The new array holds no entries yet.
ThreadPutAlloc ==
  /\ \E t \in Threads, succeeds \in BOOLEAN :
       LET i == threads[t].target_idx
           db == CallerDatabase(threads[t].path)
           a == k_malloc(heap, succeeds)
       IN /\ threads[t].pc = "put_alloc"
          /\ cache_mutex = t
          /\ cache' = [cache EXCEPT
                         ![i].database.entry_count = db.entry_count,
                         ![i].database.entries = a]
          /\ heap' = IF a = "NULL" THEN heap
                     ELSE [heap EXCEPT ![a] = "uninitialised"]
          /\ threads' = [threads EXCEPT ![t] =
                           IF a = "NULL"
                           THEN [@ EXCEPT !.ret = "-ENOMEM", !.pc = "unlock"]
                           ELSE [@ EXCEPT !.pc = "put_copy"]]
  /\ UNCHANGED cache_mutex
  /\ ThreadFrame

\* memcpy(cache[target_idx].database.entries, db->entries, ...);
ThreadPutCopy ==
  /\ \E t \in Threads :
       /\ threads[t].pc = "put_copy"
       /\ cache_mutex = t
       /\ heap' = [heap EXCEPT
                     ![cache[threads[t].target_idx].database.entries] =
                        threads[t].path]
       /\ threads' = [threads EXCEPT ![t].pc = "put_labels"]
  /\ UNCHANGED <<cache, cache_mutex>>
  /\ ThreadFrame

\* The two strncpy calls for manufacturer and device_type.
ThreadPutLabels ==
  /\ \E t \in Threads :
       LET db == CallerDatabase(threads[t].path)
       IN /\ threads[t].pc = "put_labels"
          /\ cache_mutex = t
          /\ cache' = [cache EXCEPT
               ![threads[t].target_idx].database.manufacturer =
                  db.manufacturer,
               ![threads[t].target_idx].database.device_type =
                  db.device_type]
          /\ threads' = [threads EXCEPT ![t].pc = "put_stamp"]
  /\ UNCHANGED <<heap, cache_mutex>>
  /\ ThreadFrame

\* last_access = k_uptime_get_32(); valid = true;
ThreadPutStamp ==
  /\ \E t \in Threads :
       /\ threads[t].pc = "put_stamp"
       /\ cache_mutex = t
       /\ cache' = [cache EXCEPT
                      ![threads[t].target_idx].last_access = k_uptime_get_32,
                      ![threads[t].target_idx].valid = TRUE]
       /\ threads' = [threads EXCEPT ![t].ret = "0", ![t].pc = "unlock"]
  /\ UNCHANGED <<heap, cache_mutex>>
  /\ ThreadFrame

\* The loop of irdb_cache_clear.
ThreadClear ==
  /\ \E t \in Threads :
       /\ threads[t].pc = "clear"
       /\ cache_mutex = t
       /\ LET r == irdb_cache_clear(cache, heap)
          IN cache' = r.cache /\ heap' = r.heap
       /\ threads' = [threads EXCEPT ![t].ret = "0", ![t].pc = "unlock"]
  /\ UNCHANGED cache_mutex
  /\ ThreadFrame

\* k_mutex_unlock(&cache_mutex); return ...;
ThreadUnlock ==
  /\ \E t \in Threads :
       /\ threads[t].pc = "unlock"
       /\ cache_mutex = t
       /\ cache_mutex' = "none"
       /\ threads' = [threads EXCEPT ![t].pc = "idle", ![t].calls = @ + 1]
  /\ UNCHANGED <<cache, heap>>
  /\ ThreadFrame

\* A thread that irdb_cache_get gave a database reads it through *db_out,
\* outside the cache functions and without cache_mutex.
ThreadUse ==
  /\ \E t \in Threads :
       /\ threads[t].pc = "idle"
       /\ threads[t].db_out # -1
       /\ threads[t].seen # View(cache[threads[t].db_out].database, heap)
       /\ threads' = [threads EXCEPT
                        ![t].seen = View(cache[threads[t].db_out].database,
                                         heap)]
  /\ UNCHANGED <<cache, heap, cache_mutex>>
  /\ ThreadFrame

NextThreads ==
  \/ ThreadCall \/ ThreadLock \/ ThreadGet
  \/ ThreadPutScan \/ ThreadPutFree \/ ThreadPutPath \/ ThreadPutAlloc
  \/ ThreadPutCopy \/ ThreadPutLabels \/ ThreadPutStamp
  \/ ThreadClear \/ ThreadUnlock \/ ThreadUse

(***************************************************************************)
(*      Signal analysis and similarity (src/src/ir_learning.c)             *)
(*                                                                         *)
(* Durations are uint32_t values, held as their two 16 bit halves (U32).   *)
(***************************************************************************)
\* The uint32_t with the value n, 0 <= n < 2^31.
ToU32(n) == U32(n \div Half, n % Half)

\* a - b on uint32_t, for a >= b
Sub32(a, b) ==
  IF a.lo >= b.lo THEN U32(a.hi - b.hi, a.lo - b.lo)
  ELSE U32(a.hi - b.hi - 1, a.lo + Half - b.lo)

\* a * 2 on uint32_t (the product is reduced modulo 2^32)
Twice32(a) == U32((2 * a.hi + (2 * a.lo) \div Half) % Half, (2 * a.lo) % Half)

\* a <= n for an integer 0 <= n < 2^16
AtMost(a, n) == a.hi = 0 /\ a.lo <= n

\* What an integer division by zero does: a fault (-1), or some value
\* (undefined behaviour in C; the Cortex-M UDIV yields 0 unless the trap is
\* enabled).
DivZeroOutcomes == {-1, 0, 255}

\* 1000000 / d in uint32_t arithmetic, d # 0
MillionOver(d) ==
  IF d.hi >= 16 THEN 0 ELSE 1000000 \div (d.hi * Half + d.lo)

\* sum / count for the 64 bit sum hi_sum * 2^16 + lo_sum, count > 0
Average(hi_sum, lo_sum, count) ==
  LET q == hi_sum \div count
      rest == ((hi_sum % count) * Half + lo_sum) \div count
  IN U32(q + rest \div Half, rest % Half)

\* The sum of f[i] over the indices i in S.
RECURSIVE SumOver(_, _)
SumOver(f, S) ==
  IF S = {} THEN 0
  ELSE LET i == CHOOSE i \in S : TRUE IN f[i] + SumOver(f, S \ {i})

\* The least and the greatest of the durations t[i], i in S, from an initial
\* value, as the loop of ir_learning_analyze keeps them.
RECURSIVE MinFrom(_, _, _)
MinFrom(t, i, least) ==
  IF i > Len(t) THEN least
  ELSE MinFrom(t, i + 1, IF Less32(t[i], least) THEN t[i] ELSE least)

RECURSIVE MaxFrom(_, _, _)
MaxFrom(t, i, greatest) ==
  IF i > Len(t) THEN greatest
  ELSE MaxFrom(t, i + 1, IF Less32(greatest, t[i]) THEN t[i] ELSE greatest)

\* The rounding of the estimate to a common carrier frequency.
SnapFrequency_Narrow(f) ==
  IF f > 37000 /\ f < 38000 THEN 38000
  ELSE IF f > 33000 /\ f < 37000 THEN 36000
  ELSE IF f > 38000 /\ f < 42000 THEN 40000
  ELSE f

SnapFrequency(f) ==
  IF f > 35000 /\ f < 41000 THEN 38000
  ELSE IF f > 33000 /\ f < 37000 THEN 36000
  ELSE IF f > 38000 /\ f < 42000 THEN 40000
  ELSE f

\* An ir_signal_analysis_t after memset(analysis, 0, ...).
ZeroAnalysis ==
  [pulse_count |-> 0, min_pulse |-> U32(0, 0), max_pulse |-> U32(0, 0),
   avg_mark |-> U32(0, 0), avg_space |-> U32(0, 0), estimated_freq |-> 0]

\* The caller's ir_signal_analysis_t that nothing was written to
\* (pulse_count -1).
UnwrittenAnalysis == [ZeroAnalysis EXCEPT !.pulse_count = -1]

\* ir_learning_analyze(signal, analysis); signal.timings holds the first
\* timing_count elements of the array, div0 is what a division by zero does.
ir_learning_analyze(signal, div0) ==
  IF ~signal.valid THEN [ret |-> "-EINVAL", analysis |-> UnwrittenAnalysis]
  ELSE
    LET t == signal.timings
        marks == {i \in DOMAIN t : (i - 1) % 2 = 0}
        spaces == {i \in DOMAIN t : (i - 1) % 2 # 0}
        hi == [i \in DOMAIN t |-> t[i].hi]
        lo == [i \in DOMAIN t |-> t[i].lo]
        min_pulse == MinFrom(t, 1, UINT32_MAX)
        a1 == [ZeroAnalysis EXCEPT
                 !.min_pulse = min_pulse,
                 !.max_pulse = MaxFrom(t, 1, U32(0, 0)),
                 !.pulse_count = signal.timing_count,
                 !.avg_mark = IF marks # {}
                              THEN Average(SumOver(hi, marks),
                                           SumOver(lo, marks),
                                           Cardinality(marks))
                              ELSE @,
                 !.avg_space = IF spaces # {}
                               THEN Average(SumOver(hi, spaces),
                                            SumOver(lo, spaces),
                                            Cardinality(spaces))
                               ELSE @]
    IN IF min_pulse = U32(0, 0) THEN [ret |-> "0", analysis |-> a1]
       ELSE IF Twice32(min_pulse) = U32(0, 0)
       THEN IF div0 = -1 THEN [ret |-> "fault", analysis |-> a1]
            ELSE [ret |-> "0",
                  analysis |-> [a1 EXCEPT
                                  !.estimated_freq = SnapFrequency(div0)]]
       ELSE [ret |-> "0",
             analysis |-> [a1 EXCEPT
                             !.estimated_freq =
                                SnapFrequency(
                                  MillionOver(Twice32(min_pulse)))]]

\* The length test of ir_learning_compare:
\* abs((int)sig1->timing_count - (int)sig2->timing_count) > 10
TooDifferent_AtTen(c1, c2) == (IF c1 > c2 THEN c1 - c2 ELSE c2 - c1) >= 10
TooDifferent(c1, c2) == (IF c1 > c2 THEN c1 - c2 ELSE c2 - c1) > 10

\* diff <= tolerance for the elements t1 and t2, tolerance = 200
WithinTolerance(t1, t2) ==
  AtMost(IF Less32(t2, t1) THEN Sub32(t1, t2) ELSE Sub32(t2, t1), 200)

\* *similarity = (matches * 100) / min_len, a uint8_t; min_len > 0
Percent_Unscaled(matches, min_len) == (matches \div min_len) % 256
Percent(matches, min_len) == ((matches * 100) \div min_len) % 256

\* ir_learning_compare(sig1, sig2, similarity); a similarity of -1 is the
\* caller's variable that nothing was written to.
ir_learning_compare(sig1, sig2, div0) ==
  IF ~sig1.valid \/ ~sig2.valid
  THEN [ret |-> "-EINVAL", similarity |-> -1]
  ELSE IF TooDifferent(sig1.timing_count, sig2.timing_count)
  THEN [ret |-> "0", similarity |-> 0]
  ELSE
    LET min_len == IF sig1.timing_count < sig2.timing_count
                   THEN sig1.timing_count ELSE sig2.timing_count
        matches == Cardinality({i \in 1..min_len :
                      WithinTolerance(sig1.timings[i], sig2.timings[i])})
    IN IF min_len = 0
       THEN IF div0 = -1 THEN [ret |-> "fault", similarity |-> -1]
            ELSE [ret |-> "0", similarity |-> div0]
       ELSE [ret |-> "0", similarity |-> Percent(matches, min_len)]

\* ---- the signals the functions are called with ----
\* Lengths (timing_count), mark and space durations of the signals tried,
\* and the duration of a glitch at the third element.
SignalLengths == {0, 1, 10, 20, 30, 31, 35}
MarkDurations ==
  {U32(0, 0), ToU32(12), ToU32(13), ToU32(14), ToU32(15), ToU32(25),
   ToU32(560), ToU32(800), U32(Half \div 2, 0)}
SpaceDurations == {ToU32(560), ToU32(1690)}
GlitchDuration == ToU32(9000)

\* A signal of n durations alternating mark and space from index 0.
Signal(valid, n, mark, space, glitch) ==
  [valid |-> valid, timing_count |-> n,
   timings |-> [i \in 1..n |->
                  IF glitch /\ i = 3 THEN GlitchDuration
                  ELSE IF (i - 1) % 2 = 0 THEN mark ELSE space]]

ValidSignals ==
  {Signal(TRUE, n, m, sp, g) :
     n \in SignalLengths, m \in MarkDurations, sp \in SpaceDurations,
     g \in BOOLEAN}

InvalidSignal == Signal(FALSE, 20, ToU32(560), ToU32(560), FALSE)

Signals == ValidSignals \cup {InvalidSignal}

NoAna == [signal |-> InvalidSignal, ret |-> "none",
          analysis |-> UnwrittenAnalysis]
NoCmp == [sig1 |-> InvalidSignal, sig2 |-> InvalidSignal, ret |-> "none",
          similarity |-> -1]

\* A call ir_learning_analyze(&signal, &analysis), by a caller that holds no
\* result of an earlier call.
Analyze ==
  /\ ana = NoAna
  /\ cmp = NoCmp
  /\ \E sig \in Signals, div0 \in DivZeroOutcomes :
       LET r == ir_learning_analyze(sig, div0)
       IN ana' = [signal |-> sig, ret |-> r.ret, analysis |-> r.analysis]
  /\ UNCHANGED cmp
  /\ UNCHANGED notAnalysisVars

\* A call ir_learning_compare(&sig1, &sig2, &similarity).
Compare ==
  /\ ana = NoAna
  /\ cmp = NoCmp
  /\ \E sig1 \in Signals, sig2 \in Signals, div0 \in DivZeroOutcomes :
       LET r == ir_learning_compare(sig1, sig2, div0)
       IN cmp' = [sig1 |-> sig1, sig2 |-> sig2, ret |-> r.ret,
                  similarity |-> r.similarity]
  /\ UNCHANGED ana
  /\ UNCHANGED notAnalysisVars

\* The caller is done with the results, which are its locals.
AnalysisCallerReturns ==
  /\ ana # NoAna \/ cmp # NoCmp
  /\ ana' = NoAna
  /\ cmp' = NoCmp
  /\ UNCHANGED notAnalysisVars

NextAnalysis == Analyze \/ Compare \/ AnalysisCallerReturns

AnalysisBoot ==
  /\ ana = NoAna
  /\ cmp = NoCmp

(***************************************************************************)
(*   The transmitter: ir_hal_tx_start, ir_hal_tx_pulse, ir_hal_tx_stop     *)
(*   (ir_hal.c) and the two send loops, ir_service_send_entry              *)
(*   (ir_service.c) and ir_learning_replay (ir_learning.c).                *)
(***************************************************************************)
IR_CARRIER_FREQ == 38000
IR_PWM_DUTY == 33
NSEC_PER_SEC == 1000000000

\* The frequency and gap fields of the rows of protocol_params.
TxRow(id, f, g) == [protocol_id |-> id, frequency |-> f, gap |-> g]
protocol_tx_params ==
  << TxRow(IRDB_PROTOCOL_NEC1,      38000, 108000),
     TxRow(IRDB_PROTOCOL_NEC2,      38000, 108000),
     TxRow(IRDB_PROTOCOL_RC5,       36000, 113792),
     TxRow(IRDB_PROTOCOL_SONY12,    40000,  45000),
     TxRow(IRDB_PROTOCOL_SONY15,    40000,  45000),
     TxRow(IRDB_PROTOCOL_SAMSUNG32, 38000, 108000) >>
TxParams(protocol) ==
  protocol_tx_params[CHOOSE i \in 1..Len(protocol_tx_params) :
                       protocol_tx_params[i].protocol_id = protocol]

\* pwm_set_dt(&pwm_ir, period_ns, pulse_ns): the output carries the carrier
\* iff the pulse width is not zero.
pwm_set_dt(period_ns, pulse_ns) == pulse_ns > 0

\* The PWM setting for a carrier frequency: period_ns = NSEC_PER_SEC / freq,
\* pulse_ns = period_ns * IR_PWM_DUTY / 100.
CarrierAt(freq) ==
  LET period_ns == NSEC_PER_SEC \div freq
  IN pwm_set_dt(period_ns, (period_ns * IR_PWM_DUTY) \div 100)

\* ir_hal_tx_pulse(duration_us, is_mark) on a PWM output that is in state
\* carrier: the output during k_busy_wait and the output on return. A mark
\* leaves the PWM as it is; a space switches it off, waits, and switches it
\* on again at IR_CARRIER_FREQ.
ir_hal_tx_pulse(carrier, is_mark) ==
  [during |-> IF is_mark THEN carrier ELSE pwm_set_dt(0, 0),
   after |-> IF is_mark THEN carrier ELSE CarrierAt(IR_CARRIER_FREQ)]

\* Bounds of the transmitter runs: the repeat counts tried, the sends of a
\* run, and the lengths of the learned signals replayed.
MaxRepeat == 2
MaxSends == 2
MaxReplayTimings == 3

\* The entries sent: one of each protocol id.
TxEntries == {e \in Entries : e.device = 7 /\ e.subdevice = 7 /\ e.function = 7}

\* The learned signals replayed: what ir_learning_replay reads of them.
TxSignals ==
  [valid : BOOLEAN, timing_count : 0..MaxReplayTimings,
   carrier_freq : {0, IR_CARRIER_FREQ}]

\* The transmitter at rest, after ir_hal_init: pwm_set_dt(&pwm_ir, 0, 0).
\* gap_carrier and wait are history: the output during the last inter-repeat
\* gap ("none": there was none), and the last k_busy_wait (is_mark, output).
NoTx ==
  [pc |-> "idle", fn |-> "none", carrier |-> pwm_set_dt(0, 0),
   timing_count |-> 0, gap |-> 0, repeat |-> 0, r |-> 0, i |-> 0,
   ret |-> "none", sends |-> 0, gap_carrier |-> "none",
   wait |-> [is_mark |-> FALSE, carrier |-> FALSE]]

TxBoot == tx = NoTx

\* A send starts from these fields.
TxCall(fn, repeat) ==
  [tx EXCEPT !.fn = fn, !.repeat = repeat, !.r = 0, !.i = 0,
             !.timing_count = 0, !.gap = 0, !.ret = "running",
             !.gap_carrier = "none", !.sends = @ + 1]

\* ir_service_send_entry(entry, repeat) up to the send loop: the parameter
\* lookup, irdb_encode_to_raw into timings[MAX_RAW_TIMINGS] and
\* ir_hal_tx_start(params->frequency), whose pwm_set_dt may fail.
SendEntry ==
  /\ tx.pc = "idle"
  /\ tx.sends < MaxSends
  /\ \E entry \in TxEntries, repeat \in 0..MaxRepeat, pwm_ok \in BOOLEAN :
       LET params == irdb_get_protocol_params(entry.protocol)
           e == irdb_encode_to_raw(entry, MAX_RAW_TIMINGS)
           t == TxCall("send_entry", repeat)
       IN tx' =
            IF params = NoParams THEN [t EXCEPT !.ret = "-ENOTSUP"]
            ELSE IF e.ret # "0" THEN [t EXCEPT !.ret = e.ret]
            ELSE IF ~pwm_ok THEN [t EXCEPT !.ret = "-EIO"]
            ELSE [t EXCEPT !.timing_count = e.length,
                           !.gap = TxParams(entry.protocol).gap,
                           !.carrier =
                              CarrierAt(TxParams(entry.protocol).frequency),
                           !.pc = "loop"]
  /\ UNCHANGED notTxVars

\* ir_learning_replay(signal, repeat_count) up to the send loop.
Replay ==
  /\ tx.pc = "idle"
  /\ tx.sends < MaxSends
  /\ \E signal \in TxSignals, repeat_count \in 0..MaxRepeat,
        pwm_ok \in BOOLEAN :
       LET t == TxCall("replay", repeat_count)
           carrier == IF signal.carrier_freq > 0 THEN signal.carrier_freq
                      ELSE 38000
       IN tx' =
            IF ~signal.valid THEN [t EXCEPT !.ret = "-EINVAL"]
            ELSE IF ~pwm_ok THEN [t EXCEPT !.ret = "-EIO"]
            ELSE [t EXCEPT !.timing_count = signal.timing_count,
                           !.gap = 108000,
                           !.carrier = CarrierAt(carrier),
                           !.pc = "loop"]
  /\ UNCHANGED notTxVars

\* for (r = 0; r < repeat; r++): the test at the head of the outer loop.
TxLoop ==
  /\ tx.pc = "loop"
  /\ tx' = IF tx.r < tx.repeat
           THEN [tx EXCEPT !.pc = "pulse", !.i = 0]
           ELSE [tx EXCEPT !.pc = "stop"]
  /\ UNCHANGED notTxVars

\* One pass of the inner loop: is_mark = (i % 2 == 0);
\* ir_hal_tx_pulse(timings[i], is_mark);
TxPulse ==
  /\ tx.pc = "pulse"
  /\ tx.i < tx.timing_count
  /\ LET is_mark == (tx.i % 2 = 0)
         p == ir_hal_tx_pulse(tx.carrier, is_mark)
     IN tx' = [tx EXCEPT !.i = @ + 1, !.carrier = p.after,
                         !.wait = [is_mark |-> is_mark, carrier |-> p.during]]
  /\ UNCHANGED notTxVars

\* The inner loop is over: if (r < repeat - 1 && params->gap > 0) in
\* ir_service_send_entry, if (r < repeat_count - 1) in ir_learning_replay.
TxPulsesDone ==
  /\ tx.pc = "pulse"
  /\ tx.i = tx.timing_count
  /\ tx' = IF tx.r < tx.repeat - 1 /\ (tx.fn = "send_entry" => tx.gap > 0)
           THEN [tx EXCEPT !.pc = "gap"]
           ELSE [tx EXCEPT !.pc = "loop", !.r = @ + 1]
  /\ UNCHANGED notTxVars

\* k_usleep(params->gap) / k_usleep(108000): the PWM output is not touched.
TxGap ==
  /\ tx.pc = "gap"
  /\ tx' = [tx EXCEPT !.gap_carrier = IF tx.carrier THEN "on" ELSE "off",
                      !.pc = "loop", !.r = @ + 1]
  /\ UNCHANGED notTxVars

\* ir_hal_tx_stop(): pwm_set_dt(&pwm_ir, 0, 0); return 0;
TxStop ==
  /\ tx.pc = "stop"
  /\ tx' = [tx EXCEPT !.carrier = pwm_set_dt(0, 0), !.ret = "0",
                      !.pc = "idle"]
  /\ UNCHANGED notTxVars

NextTx ==
  \/ SendEntry \/ Replay \/ TxLoop \/ TxPulse \/ TxPulsesDone \/ TxGap
  \/ TxStop

(***************************************************************************)
(*                          The specifications                             *)
(***************************************************************************)
InitCodec ==
  /\ enc = NoEnc
  /\ dec = NoDec
  /\ LearnBoot
  /\ CacheBoot
  /\ AnalysisBoot
  /\ TxBoot

NextCodec == EncodeToRaw \/ DecodeFromRaw \/ CodecCallerReturns

\* The protocol codec.
SpecCodec == InitCodec /\ [][NextCodec]_vars

InitLearn ==
  /\ LearnBoot \/ LearnNearlyFull
  /\ enc = NoEnc
  /\ dec = NoDec
  /\ CacheBoot
  /\ AnalysisBoot
  /\ TxBoot

\* The learning capture engine.
SpecLearn == InitLearn /\ [][NextLearn]_vars

InitCache ==
  /\ CacheBoot \/ CacheFull
  /\ enc = NoEnc
  /\ dec = NoDec
  /\ LearnBoot
  /\ AnalysisBoot
  /\ TxBoot

\* The database cache.
SpecCache == InitCache /\ [][NextCache]_vars

InitAnalysis ==
  /\ AnalysisBoot
  /\ enc = NoEnc
  /\ dec = NoDec
  /\ LearnBoot
  /\ CacheBoot
  /\ TxBoot

InitThreads ==
  /\ CacheBoot \/ CacheFull
  /\ enc = NoEnc
  /\ dec = NoDec
  /\ LearnBoot
  /\ AnalysisBoot
  /\ TxBoot

\* The database cache called by several threads.
SpecThreads == InitThreads /\ [][NextThreads]_vars

InitTx ==
  /\ TxBoot
  /\ enc = NoEnc
  /\ dec = NoDec
  /\ LearnBoot
  /\ CacheBoot
  /\ AnalysisBoot

\* The transmitter.
SpecTx == InitTx /\ [][NextTx]_vars

\* Signal analysis and similarity.
SpecAnalysis == InitAnalysis /\ [][NextAnalysis]_vars

(***************************************************************************)
(*                               The claims                                *)
(***************************************************************************)
\* The entry's protocol has a row and its fields fit the row's bit widths.
InRange(e) ==
  LET params == irdb_get_protocol_params(e.protocol)
  IN /\ params # NoParams
     /\ e.device < 2 ^ params.device_bits
     /\ e.subdevice < 2 ^ params.subdevice_bits
     /\ e.function < 2 ^ params.function_bits

InDb(e, db) == \E i \in 1..Len(db) : db[i] = e

(***************************************************************************)
(* C1. Round trip: decoding the timings that encode produced for an entry  *)
(* whose fields fit its protocol's bit widths, with a database containing  *)
(* the entry and no other entry with its codes, succeeds and returns the   *)
(* entry.                                                                  *)
(***************************************************************************)
C1_RoundTrip ==
  ( /\ dec.ret # "none"
    /\ dec.timings = enc.timings
    /\ InRange(dec.src) /\ InDb(dec.src, dec.db)
    /\ \A i \in 1..Len(dec.db) :
         dec.db[i] \in {dec.src, OtherEntry(dec.src)} )
    => (dec.ret = "0" /\ dec.entry_out = dec.src)

\* ---- protocol codec: encode ----

\* Bit k (1 = most significant) of the low n bits of x.
BitAt(x, n, k) == (x \div (2 ^ (n - k))) % 2

\* The number of durations a complete encoding of e has: the header pair,
\* two per data bit, the trailer mark.
TrueLength(e) ==
  LET params == irdb_get_protocol_params(e.protocol)
  IN (IF params.header_mark > 0 THEN 2 ELSE 0)
     + 2 * ( params.device_bits + params.subdevice_bits + params.function_bits
             + (IF e.protocol = IRDB_PROTOCOL_NEC1 THEN 8 ELSE 0) )
     + (IF params.trailer_mark > 0 THEN 1 ELSE 0)

(***************************************************************************)
(* C15. Encode returns -ENOTSUP exactly when the entry's protocol id has   *)
(* no row in the parameter table; for a supported protocol it returns      *)
(* -ENOMEM exactly when max_length is smaller than the true output length; *)
(* it never writes timings_out at an index >= max_length.                  *)
(***************************************************************************)
C15_EncodeErrors ==
  enc.ret # "none" =>
    /\ enc.ret = "-ENOTSUP" <=> enc.entry.protocol \notin SupportedProtocols
    /\ enc.entry.protocol \in SupportedProtocols =>
         /\ enc.ret = "-ENOMEM" <=> enc.max_length < TrueLength(enc.entry)
         /\ enc.ret = "0" <=> enc.max_length >= TrueLength(enc.entry)
         /\ enc.ret = "0" => enc.length = TrueLength(enc.entry)
    /\ Len(enc.timings) <= enc.max_length

C15_Witness ==
  /\ enc.ret = "-ENOMEM"
  /\ enc.entry.protocol = IRDB_PROTOCOL_NEC1
  /\ enc.max_length = TrueLength(enc.entry) - 1
  /\ Len(enc.timings) = enc.max_length

\* The 32 bits of an NEC1 frame for entry e, most significant first.
Nec1Bit(e, k) ==
  IF k <= 8 THEN BitAt(e.device, 8, k)
  ELSE IF k <= 16 THEN BitAt(e.subdevice, 8, k - 8)
  ELSE IF k <= 24 THEN BitAt(e.function, 8, k - 16)
  ELSE 1 - BitAt(e.function, 8, k - 24)

\* The bit a pulse distance pair of the NEC1 frame carries, -1 if none.
Nec1PairBit(timings, k) ==
  LET params == irdb_get_protocol_params(IRDB_PROTOCOL_NEC1)
  IN IF timings[2 * k + 1] # params.bit_mark THEN -1
     ELSE IF timings[2 * k + 2] = params.bit_1_space THEN 1
     ELSE IF timings[2 * k + 2] = params.bit_0_space THEN 0
     ELSE -1

(***************************************************************************)
(* C16. For an NEC1 entry the encoded bit stream is, most significant bit  *)
(* first, device (8 bits), subdevice (8 bits), function (8 bits) and then  *)
(* the complement of the function byte (8 bits), the last field before the *)
(* trailer mark; for device 7, subdevice 7, function 12 the last two       *)
(* fields are 0x0C and 0xF3.                                               *)
(***************************************************************************)
C16_Nec1Frame ==
  (enc.ret = "0" /\ enc.entry.protocol = IRDB_PROTOCOL_NEC1) =>
    /\ enc.length = 67
    /\ Len(enc.timings) = 67
    /\ \A k \in 1..32 : Nec1PairBit(enc.timings, k) = Nec1Bit(enc.entry, k)
    /\ enc.timings[67] =
         irdb_get_protocol_params(IRDB_PROTOCOL_NEC1).trailer_mark
    /\ ( /\ enc.entry.device = 7 /\ enc.entry.subdevice = 7
         /\ enc.entry.function = 12 )
       => [k \in 1..16 |-> Nec1PairBit(enc.timings, 16 + k)]
            = <<0, 0, 0, 0, 1, 1, 0, 0, 1, 1, 1, 1, 0, 0, 1, 1>>

C16_Witness ==
  /\ enc.ret = "0" /\ enc.entry.protocol = IRDB_PROTOCOL_NEC1
  /\ enc.entry.device = 7 /\ enc.entry.subdevice = 7
  /\ enc.entry.function = 12

\* Bit k (1 = first sent) of an RC5 frame for entry e: device, then function.
Rc5Bit(e, k) ==
  LET params == irdb_get_protocol_params(IRDB_PROTOCOL_RC5)
  IN IF k <= params.device_bits
     THEN BitAt(e.device, params.device_bits, k)
     ELSE BitAt(e.function, params.function_bits, k - params.device_bits)

(***************************************************************************)
(* C17. For the Manchester (RC5) protocol Encode emits every 1-bit as the  *)
(* pair (space duration, mark duration) and every 0-bit as the pair (mark  *)
(* duration, space duration), each the protocol's fixed half-bit duration. *)
(***************************************************************************)
C17_Manchester ==
  (enc.ret = "0" /\ enc.entry.protocol = IRDB_PROTOCOL_RC5) =>
    LET params == irdb_get_protocol_params(IRDB_PROTOCOL_RC5)
        n == params.device_bits + params.function_bits
    IN /\ Len(enc.timings) = 2 * n
       /\ params.bit_mark = params.bit_0_space
       /\ \A k \in 1..n :
            <<enc.timings[2 * k - 1], enc.timings[2 * k]>> =
              (IF Rc5Bit(enc.entry, k) = 1
               THEN <<params.bit_0_space, params.bit_mark>>
               ELSE <<params.bit_mark, params.bit_0_space>>)

C17_Witness ==
  /\ enc.ret = "0" /\ enc.entry.protocol = IRDB_PROTOCOL_RC5
  /\ enc.entry.device = 12 /\ enc.entry.function = 7

\* Bit k (1 = first sent) of the frame of e: the device, subdevice and function
\* fields, each cut to its width, most significant bit first, and for NEC1
\* the complement of the function byte after them.
FieldBit(e, params, k) ==
  LET db == params.device_bits
      sb == params.subdevice_bits
      fb == params.function_bits
  IN IF k <= db THEN BitAt(e.device, db, k)
     ELSE IF k <= db + sb THEN BitAt(e.subdevice, sb, k - db)
     ELSE IF k <= db + sb + fb THEN BitAt(e.function, fb, k - db - sb)
     ELSE 1 - BitAt(e.function, 8, k - db - sb - fb)

\* Duration i (1 = first) of the frame of e: the header pair, the pair of each
\* bit, the trailer mark.
FrameDuration(e, params, i) ==
  LET h == IF params.header_mark > 0 THEN 2 ELSE 0
  IN IF i <= h
     THEN (IF i = 1 THEN params.header_mark ELSE params.header_space)
     ELSE IF params.trailer_mark > 0 /\ i = TrueLength(e)
     THEN params.trailer_mark
     ELSE EncodeBit(e, params,
                    FieldBit(e, params, (i - h + 1) \div 2))[((i - h - 1) % 2) + 1]

(***************************************************************************)
(* C28. On success Encode returns length = (2 if the protocol has a header *)
(* mark) + 2 * (device_bits + subdevice_bits + function_bits, plus 8 for   *)
(* NEC1) + (1 if the protocol has a trailer mark); the pairs of the fields *)
(* follow the header most significant bit first in the order device,       *)
(* subdevice, function, each field masked to its bit width, and nothing    *)
(* else is emitted.                                                        *)
(***************************************************************************)
C28_FrameLayout ==
  enc.ret = "0" =>
    LET params == irdb_get_protocol_params(enc.entry.protocol)
    IN /\ enc.length = TrueLength(enc.entry)
       /\ Len(enc.timings) = enc.length
       /\ \A i \in 1..enc.length :
            enc.timings[i] = FrameDuration(enc.entry, params, i)

\* An encoded NEC2 frame whose device does not fit 8 bits and whose
\* function needs masking: 16 device bits, no subdevice, 8 function bits.
C28_Witness ==
  /\ enc.ret = "0" /\ enc.entry.protocol = IRDB_PROTOCOL_NEC2
  /\ enc.entry.device = 300 /\ enc.entry.subdevice = 127
  /\ enc.entry.function = 300
  /\ enc.length = 51

\* ---- protocol codec: decode ----

\* The indices of the entries of the database of the last decode that match
\* the timings it was given.
Matching ==
  {i \in 1..Len(dec.db) : DecodeTry(dec.db[i], dec.timings, dec.length)}

(***************************************************************************)
(* C22. When several database entries match the observed timings, Decode   *)
(* returns the one with the lowest index in the database; of entries with  *)
(* the same protocol, device, subdevice and function it returns the first. *)
(***************************************************************************)
C22_FirstMatchWins ==
  (dec.ret # "none" /\ dec.length >= 4 /\ Matching # {}) =>
    /\ dec.ret = "0"
    /\ \E i \in Matching :
         /\ \A j \in Matching : i <= j
         /\ dec.entry_out = dec.db[i]

\* The entry that was sent and, ahead of it, an entry with the same codes
\* under another name both match, and the one ahead is returned.
C22_Witness ==
  /\ dec.ret = "0"
  /\ Len(dec.db) = 2 /\ Matching = {1, 2}
  /\ dec.db[2] = dec.src /\ dec.db[1] = Alias(dec.src)
  /\ dec.entry_out = dec.db[1]

(***************************************************************************)
(* C27. Decode reports a match for an entry only if the observed sequence  *)
(* is the whole frame of the entry's protocol: it has the length of the    *)
(* frame (no duration is missing, none follows the expected bits) and,     *)
(* where the protocol has a trailer mark, its last duration agrees with    *)
(* the trailer mark within the tolerance.                                  *)
(***************************************************************************)
C27_WholeFrame ==
  dec.ret = "0" =>
    LET params == irdb_get_protocol_params(dec.entry_out.protocol)
    IN /\ dec.length = TrueLength(dec.entry_out)
       /\ params.trailer_mark > 0 =>
            timing_match(dec.timings[dec.length], params.trailer_mark)

\* ---- learning capture engine ----

\* The positions in notes of the notifications with one of the statuses.
Delivered(statuses) == {i \in DOMAIN notes : notes[i].status \in statuses}

\* ir_learning_start has returned 0 and the thread is in no other call.
StartReturned == pc = "idle" /\ call.fn = "start" /\ call.ret = "0"

(***************************************************************************)
(* C2. When the idle timer expires in a session with at least one edge     *)
(* recorded, exactly one Completed notification is delivered; it carries   *)
(* the signal with valid = true and a timing_count equal to the number of  *)
(* edges accepted since Start.                                             *)
(***************************************************************************)
C2_IdleCompletion ==
  learn_state.callback # "NULL" =>
    LET byTimer == {i \in Delivered({"IR_LEARN_COMPLETED"}) :
                      notes[i].by = "end_timer"}
    IN /\ Cardinality(Delivered({"IR_LEARN_COMPLETED"})) <= 1
       /\ Cardinality(byTimer) = hist.end_expired
       /\ \A i \in byTimer :
            /\ notes[i].signal.present
            /\ notes[i].signal.valid
            /\ notes[i].signal.timing_count = notes[i].accepted
            /\ notes[i].accepted = hist.accepted

C2_Witness ==
  \E i \in DOMAIN notes :
    /\ notes[i].status = "IR_LEARN_COMPLETED"
    /\ notes[i].by = "end_timer"
    /\ notes[i].signal.timing_count >= 2
    /\ hist.noise

(***************************************************************************)
(* C3. In a session, the Receiving notification is delivered by the first  *)
(* edge of at least the minimum pulse, and exactly once however many       *)
(* edges follow.                                                           *)
(***************************************************************************)
C3_ReceivingOnce ==
  learn_state.callback # "NULL" =>
    /\ Cardinality(Delivered({"IR_LEARN_RECEIVING"}))
         = (IF hist.accepted >= 1 THEN 1 ELSE 0)
    /\ \A i \in Delivered({"IR_LEARN_RECEIVING"}) : notes[i].accepted = 1

C3_Witness ==
  /\ Cardinality(Delivered({"IR_LEARN_RECEIVING"})) = 1
  /\ hist.accepted >= 3
  /\ hist.session = 2

(***************************************************************************)
(* C4 as stated. After a successful Start, while only edges below the      *)
(* minimum pulse have arrived, the edge count is 0, nothing is written to  *)
(* the buffer, the idle timer is not armed and no Receiving or Completed   *)
(* notification has been delivered.                                        *)
(***************************************************************************)
C4_NoiseOnly_AsStated ==
  (StartReturned /\ learn_state.active /\ ~hist.long) =>
    /\ learn_state.edge_count = 0
    /\ timing_buffer = <<>>
    /\ ~end_timer
    /\ Delivered({"IR_LEARN_RECEIVING", "IR_LEARN_COMPLETED"}) = {}

(***************************************************************************)
(* C4 as amended. As above, but the idle timer is not armed by an edge of  *)
(* this session: it runs only if an earlier session left it running.       *)
(***************************************************************************)
C4_NoiseOnly ==
  (StartReturned /\ learn_state.active /\ ~hist.long) =>
    /\ learn_state.edge_count = 0
    /\ timing_buffer = <<>>
    /\ end_timer => hist.end_armed_by < hist.session
    /\ Delivered({"IR_LEARN_RECEIVING", "IR_LEARN_COMPLETED"}) = {}

C4_Witness ==
  /\ StartReturned /\ learn_state.active /\ ~hist.long
  /\ hist.noise
  /\ hist.edges >= 2

(***************************************************************************)
(* C7. The number of recorded edges (edge_count, and timing_count of the   *)
(* current signal) is at most IR_LEARNING_MAX_EDGES, and nothing is        *)
(* written to the timing buffer at an index >= IR_LEARNING_MAX_EDGES.      *)
(***************************************************************************)
C7_EdgeBound ==
  /\ learn_state.edge_count <= IR_LEARNING_MAX_EDGES
  /\ learn_state.timing_count <= IR_LEARNING_MAX_EDGES
  /\ Len(timing_buffer) <= IR_LEARNING_MAX_EDGES

C7_Witness ==
  /\ learn_state.edge_count = IR_LEARNING_MAX_EDGES
  /\ Len(timing_buffer) = IR_LEARNING_MAX_EDGES
  /\ learn_state.active

(***************************************************************************)
(* C8. An accepted edge that arrives while the buffer holds                *)
(* IR_LEARNING_MAX_EDGES timings ends the capture as a normal completion:  *)
(* the idle timer is stopped, one Completed notification (and no Error) is *)
(* delivered with valid = true and timing_count = IR_LEARNING_MAX_EDGES,   *)
(* and the timings captured so far are unchanged.                          *)
(***************************************************************************)
C8_OverflowCompletes ==
  [][ ( /\ learn_state.active
        /\ learn_state.callback # "NULL"
        /\ learn_state.edge_count = IR_LEARNING_MAX_EDGES
        /\ hist'.accepted = hist.accepted + 1 )
      =>
      ( /\ ~end_timer'
        /\ timing_buffer' = timing_buffer
        /\ ~learn_state'.active
        /\ Delivered({"IR_LEARN_COMPLETED", "IR_LEARN_ERROR"}) = {}
        /\ notes' = Append(notes,
                      [status |-> "IR_LEARN_COMPLETED",
                       signal |-> [present |-> TRUE, name |-> learn_state.name,
                                   valid |-> TRUE,
                                   timing_count |-> IR_LEARNING_MAX_EDGES],
                       by |-> "NULL",
                       accepted |-> hist'.accepted]) )
    ]_vars

C8_Witness ==
  \E i \in DOMAIN notes :
    /\ notes[i].status = "IR_LEARN_COMPLETED"
    /\ notes[i].by = "NULL"
    /\ notes[i].signal.timing_count = IR_LEARNING_MAX_EDGES
    /\ Len(timing_buffer) = IR_LEARNING_MAX_EDGES

(***************************************************************************)
(* C9. Start returns -EBUSY when a session is active and -EINVAL when the  *)
(* timing buffer was never allocated; in both cases the session state      *)
(* (buffer, edge count, name, callback, active flag, timers) is unchanged  *)
(* and no notification is delivered.                                       *)
(***************************************************************************)
C9_StartRejected ==
  [][ /\ ( /\ pc = "idle" /\ call'.fn = "start" /\ call' # call
           /\ learn_state.active )
         => (call'.ret = "-EBUSY" /\ pc' = "idle")
      /\ ( /\ pc = "start_check_buffer" /\ pc' # pc
           /\ learn_state.timings_ptr = "NULL" )
         => (call'.ret = "-EINVAL" /\ pc' = "idle")
      /\ ( /\ pc \in {"idle", "start_check_buffer"} /\ pc' = "idle"
           /\ call' # call /\ call'.fn = "start"
           /\ call'.ret \in {"-EBUSY", "-EINVAL"} )
         => /\ UNCHANGED <<learn_state, timing_buffer, timeout_timer,
                           end_timer, rx_state, notes>>
            /\ call'.ret = "-EBUSY" => learn_state.active
            /\ call'.ret = "-EINVAL" => learn_state.timings_ptr = "NULL"
    ]_vars

C9_Witness ==
  /\ pc = "idle" /\ call.fn = "start" /\ call.ret = "-EBUSY"
  /\ learn_state.active
  /\ learn_state.edge_count >= 1
  /\ learn_state.name # call.name

(***************************************************************************)
(* C10. In every session the Waiting notification is delivered before any  *)
(* edge of the session is accepted and before the session's Receiving,     *)
(* Completed and Timeout notifications, also when the edge source or a     *)
(* timer fires while Start is still executing.                             *)
(***************************************************************************)
C10_WaitingFirst ==
  learn_state.callback # "NULL" =>
    /\ \A i \in DOMAIN notes :
         notes[i].status # "IR_LEARN_WAITING" =>
           \E j \in 1..(i - 1) : notes[j].status = "IR_LEARN_WAITING"
    /\ hist.accepted > 0 => Delivered({"IR_LEARN_WAITING"}) # {}

\* ---- learning capture engine: timeout, Stop, the valid flag ----

\* The step is the expiry of the session timeout timer.
TimeoutExpiry == timeout_timer /\ ~timeout_timer' /\ pc' = pc

(***************************************************************************)
(* C11. If the session timeout expires while the session is active, a      *)
(* Timeout notification carrying no signal is delivered, the session       *)
(* becomes inactive, the edge source is stopped, and the signal's valid    *)
(* flag stays false even if edges were already recorded.                   *)
(***************************************************************************)
C11_TimeoutEndsSession ==
  [][ (TimeoutExpiry /\ learn_state.active)
      =>
      ( /\ ~learn_state'.active
        /\ ~learn_state'.valid
        /\ ~rx_state'.active /\ ~rx_state'.irq
        /\ timing_buffer' = timing_buffer
        /\ learn_state.callback # "NULL" =>
             notes' = Append(notes,
                        [status |-> "IR_LEARN_TIMEOUT", signal |-> NullSignal,
                         by |-> "timeout_timer",
                         accepted |-> hist.accepted]) )
    ]_vars

C11_Witness ==
  /\ \E i \in DOMAIN notes : notes[i].status = "IR_LEARN_TIMEOUT"
  /\ learn_state.edge_count >= 2
  /\ ~learn_state.active /\ ~learn_state.valid /\ ~rx_state.irq

\* ir_learning_stop has returned and the thread is in no other call.
StopReturned == pc = "idle" /\ call.fn = "stop" /\ call.ret = "0"

(***************************************************************************)
(* C12. Stop on an inactive engine changes nothing and returns 0. Stop on  *)
(* an active session clears the active flag, deactivates both timers and   *)
(* the edge source and delivers no notification, and no notification is    *)
(* delivered after Stop has returned.                                      *)
(***************************************************************************)
C12_Stop ==
  [][ /\ ( /\ pc = "idle" /\ call'.fn = "stop" /\ call' # call
           /\ ~learn_state.active )
         => /\ pc' = "idle" /\ call'.ret = "0"
            /\ UNCHANGED <<learn_state, timing_buffer, timeout_timer,
                           end_timer, rx_state, notes>>
      /\ (pc = "stop_rx" /\ pc' = "idle")
         => /\ call'.ret = "0"
            /\ ~learn_state'.active
            /\ ~timeout_timer' /\ ~end_timer'
            /\ ~rx_state'.active /\ ~rx_state'.irq
      /\ (pc \in {"stop_clear", "stop_timers", "stop_rx"} /\ pc' # pc)
         => notes' = notes
      /\ StopReturned => notes' = notes
    ]_vars

C12_Witness ==
  /\ StopReturned
  /\ learn_state.callback # "NULL"
  /\ learn_state.edge_count >= 1
  /\ Delivered({"IR_LEARN_WAITING"}) # {}
  /\ Delivered({"IR_LEARN_COMPLETED", "IR_LEARN_TIMEOUT"}) = {}

(***************************************************************************)
(* C13. The current signal's valid flag is true only if the session ended  *)
(* through normal completion; it is false while the session is active      *)
(* (after Start, in Waiting and Receiving) and after Timeout, Error or a   *)
(* Stop that ended the session.                                            *)
(***************************************************************************)
C13_ValidOnlyCompleted ==
  /\ learn_state.active => ~learn_state.valid
  /\ learn_state.valid =>
       /\ learn_state.edge_count >= 1
       /\ learn_state.timing_count = learn_state.edge_count
  /\ (learn_state.valid /\ learn_state.callback # "NULL") =>
       /\ Delivered({"IR_LEARN_COMPLETED"}) # {}
       /\ Delivered({"IR_LEARN_TIMEOUT", "IR_LEARN_ERROR"}) = {}
  /\ Delivered({"IR_LEARN_TIMEOUT", "IR_LEARN_ERROR"}) # {} => ~learn_state.valid

C13_Witness ==
  /\ learn_state.valid
  /\ hist.session = 2
  /\ Delivered({"IR_LEARN_COMPLETED"}) # {}

\* The step is an edge on the receiver pin.
EdgeStep ==
  \/ hist'.edges # hist.edges
  \/ ~rx_state.have_last /\ rx_state'.have_last

(***************************************************************************)
(* C14. On every path that stops the edge source for a session (Stop,      *)
(* Completed, Timeout, Error) the active flag is cleared before            *)
(* ir_hal_rx_stop is called, and an edge callback that runs between the    *)
(* two sees the session as inactive and records nothing.                   *)
(***************************************************************************)
C14_ActiveClearedFirst ==
  [][ /\ ~hist'.stopped_active
      /\ (EdgeStep /\ ~learn_state.active)
         => UNCHANGED <<learn_state, timing_buffer, end_timer, timeout_timer,
                        notes>>
    ]_vars

C14_Witness ==
  /\ pc = "stop_rx"
  /\ rx_state.irq
  /\ hist.ignored
  /\ learn_state.edge_count >= 1

\* ---- learning capture engine: the delivered signal, exclusion, alternation ----

(***************************************************************************)
(* C24. The signal handed to the caller with Completed is a copy that is   *)
(* independent of the engine's capture buffer: what the caller reads       *)
(* through it later (timings, timing_count, valid, name) is what it read   *)
(* when it was notified, also after a later Start and after edges of a     *)
(* later session.                                                          *)
(***************************************************************************)
C24_SignalIsCopy ==
  hist.received.present => Pointed(World) = hist.received

TerminalStatuses ==
  {"IR_LEARN_COMPLETED", "IR_LEARN_TIMEOUT", "IR_LEARN_ERROR"}

(***************************************************************************)
(* C25. For each Start that begins a session at most one terminal          *)
(* notification (Completed, Timeout or Error) is delivered, and each of    *)
(* Waiting and Receiving at most once, under every interleaving of the     *)
(* edge callback, the two timer handlers, Stop and a following Start.      *)
(***************************************************************************)
C25_OncePerStart ==
  /\ Cardinality(Delivered(TerminalStatuses)) <= 1
  /\ Cardinality(Delivered({"IR_LEARN_WAITING"})) <= 1
  /\ Cardinality(Delivered({"IR_LEARN_RECEIVING"})) <= 1

\* Start has returned, the session was notified as waiting, receiving and
\* completed, and the session timeout has expired since.
C25_Witness ==
  /\ StartReturned
  /\ Delivered({"IR_LEARN_WAITING"}) # {}
  /\ Delivered({"IR_LEARN_RECEIVING"}) # {}
  /\ Delivered({"IR_LEARN_COMPLETED"}) # {}
  /\ ~timeout_timer /\ ~end_timer

\* The thread has checked learn_state.active in Start or Stop and has not yet
\* made the writes that follow the check.
BetweenCheckAndWrite ==
  pc \in {"start_check_buffer", "start_memset", "start_reset", "stop_clear"}

(***************************************************************************)
(* C26. Accesses to the session state (active flag, edge count, timing     *)
(* buffer) by Start, Stop, the edge callback and the two timer handlers    *)
(* are mutually exclusive: between the thread's check of the active flag   *)
(* and the writes that follow it no handler changes that state.            *)
(***************************************************************************)
C26_Exclusive ==
  [][ (BetweenCheckAndWrite /\ pc' = pc)
        => UNCHANGED <<learn_state, timing_buffer>>
    ]_vars

(***************************************************************************)
(* C29. The timing buffer of every completed signal alternates mark and    *)
(* space from a mark at index 0: each duration at an even index was        *)
(* measured on a mark and each at an odd index on a space, also when noise *)
(* pulses were discarded in between and whatever the level of the first    *)
(* edge.                                                                   *)
(***************************************************************************)
C29_Alternates ==
  Delivered({"IR_LEARN_COMPLETED"}) # {} => hist.alternates

\* ---- signal analysis and similarity ----

\* The durations a and b differ by at most n microseconds (n < 2^16).
Close(a, b, n) ==
  /\ a.hi - b.hi \in {-1, 0, 1}
  /\ LET d == (a.hi - b.hi) * Half + a.lo - b.lo
     IN d <= n /\ -d <= n

\* The lengths of the two signals of the last Compare, and the shorter.
Len1 == cmp.sig1.timing_count
Len2 == cmp.sig2.timing_count
Shorter == IF Len1 < Len2 THEN Len1 ELSE Len2

\* ir_learning_compare was called with two valid signals and returned.
Compared == cmp.ret # "none" /\ cmp.sig1.valid /\ cmp.sig2.valid

(***************************************************************************)
(* C18. Compare of two valid signals with identical timing sequences of    *)
(* the same non-zero length returns similarity 100.                        *)
(***************************************************************************)
C18_IdenticalIs100 ==
  ( /\ Compared
    /\ Len1 = Len2 /\ Len1 > 0
    /\ cmp.sig1.timings = cmp.sig2.timings )
  => (cmp.ret = "0" /\ cmp.similarity = 100)

C18_Witness ==
  /\ Compared
  /\ Len1 = 20 /\ Len2 = 20
  /\ cmp.sig1.timings = cmp.sig2.timings
  /\ cmp.sig1.timings[3] = GlitchDuration

(***************************************************************************)
(* C19. Compare of two valid signals whose lengths differ by more than 10  *)
(* returns 0 with similarity 0 whatever the content; with a difference of  *)
(* 10 or less the similarity is computed element by element: the share, in *)
(* percent rounded down, of the elements up to the shorter length that are *)
(* within 200 us of each other (shorter length 0 is not covered here).     *)
(***************************************************************************)
C19_LengthCutoff ==
  Compared =>
    /\ (Len1 - Len2 > 10 \/ Len2 - Len1 > 10)
         => (cmp.ret = "0" /\ cmp.similarity = 0)
    /\ (Len1 - Len2 <= 10 /\ Len2 - Len1 <= 10 /\ Shorter > 0)
         => /\ cmp.ret = "0"
            /\ cmp.similarity =
                 (100 * Cardinality({i \in 1..Shorter :
                     Close(cmp.sig1.timings[i], cmp.sig2.timings[i], 200)}))
                 \div Shorter

C19_Witness ==
  /\ Compared
  /\ Len1 = 20 /\ Len2 = 35
  /\ \A i \in 1..20 : cmp.sig1.timings[i] = cmp.sig2.timings[i]
  /\ cmp.similarity = 0

\* The shortest duration of the signal of the last Analyze is m microseconds.
ShortestIs(m) ==
  /\ \E i \in DOMAIN ana.signal.timings : ana.signal.timings[i] = ToU32(m)
  /\ \A i \in DOMAIN ana.signal.timings :
       ~Less32(ana.signal.timings[i], ToU32(m))

(***************************************************************************)
(* C20. Analyze of a valid signal whose raw estimate                       *)
(* 1000000 / (2 * min_pulse) lies inside the 38 kHz window (above 35000    *)
(* and below 41000; e.g. min_pulse = 13, raw estimate 38461) reports       *)
(* estimated_freq = 38000.                                                 *)
(***************************************************************************)
C20_Snap38k ==
  (ana.ret # "none" /\ ana.signal.valid) =>
    \A m \in 1..1000 :
      ( /\ ShortestIs(m)
        /\ 1000000 \div (2 * m) > 35000
        /\ 1000000 \div (2 * m) < 41000 )
      => /\ ana.ret = "0"
         /\ ana.analysis.min_pulse = ToU32(m)
         /\ ana.analysis.estimated_freq = 38000

C20_Witness ==
  /\ ana.ret = "0" /\ ana.signal.valid
  /\ ShortestIs(13)
  /\ ana.analysis.estimated_freq = 38000

\* The canonical carrier bands and the window of raw estimates of each, as
\* ir_learning_analyze compares them (both ends excluded).
Bands == {36000, 38000, 40000}
InWindow(raw, band) ==
  CASE band = 36000 -> raw > 33000 /\ raw < 37000
    [] band = 38000 -> raw > 35000 /\ raw < 41000
    [] band = 40000 -> raw > 38000 /\ raw < 42000

Distance(a, b) == IF a > b THEN a - b ELSE b - a

(***************************************************************************)
(* C30. Analyze snaps the raw carrier estimate to the nearest of the bands *)
(* 36000, 38000 and 40000 Hz whose window it lies in, and keeps the raw    *)
(* estimate when it lies in none: an estimate closer to 36000 than to      *)
(* 38000 is reported as 36000, one closer to 40000 than to 38000 as 40000. *)
(***************************************************************************)
C30_NearestBand ==
  (ana.ret # "none" /\ ana.signal.valid) =>
    \A m \in 1..1000 :
      ShortestIs(m) =>
        LET raw == 1000000 \div (2 * m)
            near == {b \in Bands :
                       /\ InWindow(raw, b)
                       /\ \A c \in Bands :
                            InWindow(raw, c) =>
                              Distance(raw, b) <= Distance(raw, c)}
        IN /\ ana.ret = "0"
           /\ IF near = {} THEN ana.analysis.estimated_freq = raw
              ELSE ana.analysis.estimated_freq \in near

\* ---- database cache ----

\* The keys irdb_cache_get finds in the cache c.
CachedPaths(c) == {path \in CachePaths : GetScan(c, path, 0) # -1}

\* All slots of the cache are valid and hold distinct keys, each of them
\* stored by a successful Put.
FullAndDistinct ==
  /\ \A i \in Slots : cache[i].valid
  /\ \A i, j \in Slots : i # j => cache[i].path # cache[j].path
  /\ \A i \in Slots : \E n \in DOMAIN cache_hist.recent :
       cache_hist.recent[n] = cache[i].path

\* The step is a successful Put of a key that is not in the full cache.
PutOfNewKey ==
  /\ FullAndDistinct
  /\ cache_hist'.ops = cache_hist.ops + 1
  /\ cache_hist'.last.op = "put"
  /\ cache_hist'.last.ret = "0"
  /\ cache_hist'.last.path \notin CachedPaths(cache)

\* The cached key whose last Get hit or Put is the oldest.
LeastRecent ==
  LET n == CHOOSE n \in DOMAIN cache_hist.recent :
             /\ cache_hist.recent[n] \in CachedPaths(cache)
             /\ \A m \in 1..(n - 1) :
                  cache_hist.recent[m] \notin CachedPaths(cache)
  IN cache_hist.recent[n]

(***************************************************************************)
(* C5. With all IRDB_CACHE_SIZE slots valid and holding distinct keys, a   *)
(* Put of a new key evicts exactly the key whose last Get or Put is the    *)
(* oldest: afterwards Get finds the other three keys and the new key, and  *)
(* no other.                                                               *)
(***************************************************************************)
C5_EvictsLeastRecent ==
  [][ PutOfNewKey =>
        CachedPaths(cache') =
          (CachedPaths(cache) \ {LeastRecent}) \cup {cache_hist'.last.path}
    ]_vars

(***************************************************************************)
(* C6. After a Get hit on key k, the next Put of a new key into the full   *)
(* cache does not evict k, whatever the times of the two calls.            *)
(***************************************************************************)
C6_GetProtects ==
  [][ ( /\ PutOfNewKey
        /\ cache_hist.last.op = "get"
        /\ cache_hist.last.ret = "0" )
      => cache_hist.last.path \in CachedPaths(cache')
    ]_vars

\* The slot i holds a whole database: a key, an array of entries that is
\* allocated, and the entry_count of the database that was put.
WholeSlot(i) ==
  /\ cache[i].path \in CachePaths
  /\ cache[i].database.entries # "NULL"
  /\ heap[cache[i].database.entries] # "free"
  /\ cache[i].database.entry_count =
       CallerDatabase(cache[i].path).entry_count

\* The last call was an irdb_cache_get that found its path.
GetHit == cache_hist.last.op = "get" /\ cache_hist.last.ret = "0"

(***************************************************************************)
(* C21. After any sequence of Get, Put and Clear, including a Put that     *)
(* fails with -ENOMEM, every valid slot holds a whole database; Get never  *)
(* returns a database whose entries pointer is NULL while its entry_count  *)
(* is above 0, and never returns a key of which no Put has succeeded.      *)
(***************************************************************************)
C21_SlotsWhole ==
  [][ /\ \A i \in Slots : cache'[i].valid => WholeSlot(i)'
      /\ GetHit' =>
           LET db == cache'[cache_hist'.last.slot].database
           IN /\ ~(db.entries = "NULL" /\ db.entry_count > 0)
              /\ \E n \in DOMAIN cache_hist.recent :
                   cache_hist.recent[n] = cache_hist'.last.path
    ]_vars

\* What irdb_cache_get(path) hands out from the slots c and the heap h: the
\* fields of the database it points to and the entries behind its pointer.
Returned(c, h, path) ==
  LET i == GetScan(c, path, 0)
  IN IF i = -1
     THEN [found |-> FALSE, manufacturer |-> "", device_type |-> "",
           entry_count |-> 0, entries |-> ""]
     ELSE [found |-> TRUE,
           manufacturer |-> c[i].database.manufacturer,
           device_type |-> c[i].database.device_type,
           entry_count |-> c[i].database.entry_count,
           entries |-> IF c[i].database.entries = "NULL" THEN "NULL"
                       ELSE h[c[i].database.entries]]

\* A step of the caller on the database it passed to irdb_cache_put.
CallerStep == cache_hist' = cache_hist /\ now' = now /\ caller' # caller

(***************************************************************************)
(* C23. Put stores a deep copy: when the caller changes or frees the       *)
(* database it passed (entries or labels), the entries, entry_count,       *)
(* manufacturer and device_type that Get returns for any key stay as they  *)
(* were.                                                                   *)
(***************************************************************************)
C23_DeepCopy ==
  [][ CallerStep =>
        \A path \in CachePaths :
          Returned(cache', heap', path) = Returned(cache, heap, path)
    ]_vars

\* A Put has succeeded, its caller has rewritten the database it passed, and
\* Get of the key returns the database as it was put.
C23_Witness ==
  /\ cache_hist.last.op = "put" /\ cache_hist.last.ret = "0"
  /\ caller.manufacturer = "changed"
  /\ caller.entries # "NULL" /\ heap[caller.entries] = "changed"
  /\ LET key == cache_hist.last.path
     IN Returned(cache, heap, key) =
          [found |-> TRUE, manufacturer |-> key, device_type |-> key,
           entry_count |-> CallerDatabase(key).entry_count, entries |-> key]

\* The step is a call of irdb_cache_put.
PutStep == cache_hist'.ops = cache_hist.ops + 1 /\ cache_hist'.last.op = "put"

\* The lowest of a non-empty set of slot indices.
Lowest(S) == CHOOSE i \in S : \A j \in S : i <= j

(***************************************************************************)
(* C31. Put writes into the lowest-indexed invalid slot if any slot is     *)
(* invalid; otherwise into the slot with the smallest last-access          *)
(* timestamp, and among slots that share that timestamp into the one with  *)
(* the lowest index.                                                       *)
(***************************************************************************)
C31_PutTarget ==
  [][ PutStep =>
        LET invalid == {i \in Slots : ~cache[i].valid}
            oldest == {i \in Slots :
                         \A j \in Slots :
                           ~Less32(cache[j].last_access, cache[i].last_access)}
        IN cache_hist'.last.slot =
             (IF invalid # {} THEN Lowest(invalid) ELSE Lowest(oldest))
    ]_vars

\* A Put into the full cache whose slots 0 and 1 shared the smallest
\* timestamp went to slot 0.
C31_Witness ==
  /\ cache_hist.last.op = "put" /\ cache_hist.last.ret = "0"
  /\ cache_hist.ops = 1 /\ cache_hist.ticks = 0
  /\ cache_hist.last.slot = 0
  /\ cache[0].path = "rc5/tv"
  /\ cache[1].valid /\ cache[1].last_access = U32(Half - 1, Half - 2)
  /\ cache[2].valid /\ cache[3].valid

(***************************************************************************)
(* C33. After Put(key, db) has succeeded, Get(key) returns the database    *)
(* most recently put under the key (it finds the slot that Put wrote),     *)
(* also when the key is put more than once; no two valid slots hold the    *)
(* same key.                                                               *)
(***************************************************************************)
C33_LatestPutWins ==
  /\ (cache_hist.last.op = "put" /\ cache_hist.last.ret = "0")
       => GetScan(cache, cache_hist.last.path, 0) = cache_hist.last.slot
  /\ \A i, j \in Slots :
       (i # j /\ cache[i].valid /\ cache[j].valid)
         => cache[i].path # cache[j].path

(***************************************************************************)
(* C38. Every return path of Get, Put (the OutOfMemory path included) and  *)
(* Clear releases the cache mutex: a thread outside the three functions,   *)
(* or waiting for the mutex, does not own it. No thread observes a         *)
(* half-written slot: whenever a thread reads the database that Get gave   *)
(* it whole, what it reads is a whole database (labels and entries of one  *)
(* key, entry_count entries) or an empty one.                              *)
(***************************************************************************)
WholeView(v) ==
  \/ v = View(ZeroDatabase, heap)
  \/ /\ v.present
     /\ v.entry_count = 2
     /\ v.manufacturer \in CachePaths
     /\ v.device_type = v.manufacturer
     /\ v.entries = v.manufacturer

C38_MutexGuardsSlots ==
  /\ \A t \in Threads :
       threads[t].pc \in {"idle", "lock"} => cache_mutex # t
  /\ \A t \in Threads :
       (WholeView(threads[t].got) /\ threads[t].seen.present)
         => WholeView(threads[t].seen)

(***************************************************************************)
(* C32. When a command or a learned signal is sent with repeat > 1, the    *)
(* carrier is off during the inter-repeat gap, for sequences ending in a   *)
(* mark as well as for sequences ending in a space, and the carrier is     *)
(* off once the send has returned.                                         *)
(***************************************************************************)
C32_GapSilent ==
  /\ tx.gap_carrier # "on"
  /\ tx.pc = "idle" => ~tx.carrier

(***************************************************************************)
(* C34. A Timeout notification is delivered only after the timeout timer   *)
(* armed by the session's own Start has been started, that is, never       *)
(* while ir_learning_start is between active = true and its                *)
(* k_timer_start; and when Start returns success the session is active.    *)
(***************************************************************************)
TimeoutDelivered ==
  /\ Len(notes') = Len(notes) + 1
  /\ notes'[Len(notes')].status = "IR_LEARN_TIMEOUT"

OwnTimeoutArmed == pc \notin {"start_rx", "start_rx_failed", "start_timer"}

StartReturnsSuccess == pc = "start_notify" /\ pc' = "idle"

C34_OwnTimeoutOnly ==
  [][ /\ TimeoutDelivered => OwnTimeoutArmed
      /\ StartReturnsSuccess => learn_state'.active
    ]_vars

(***************************************************************************)
(* C35. For each supported protocol, two entries that differ in a device,  *)
(* subdevice or function value, all of them within the protocol's field    *)
(* widths, encode to different timing sequences.                           *)
(***************************************************************************)
Codes(e) == <<e.device, e.subdevice, e.function>>

C35_EncodeInjective ==
  (enc.ret = "0" /\ InRange(enc.entry))
    => \A e \in Entries :
         (e.protocol = enc.entry.protocol /\ InRange(e)
            /\ Codes(e) # Codes(enc.entry))
           => irdb_encode_to_raw(e, enc.max_length).timings # enc.timings

(***************************************************************************)
(* C36. Every Completed notification carries timing_count >= 1. An expiry  *)
(* of the idle timer while the session is active and has accepted no edge  *)
(* (the idle timer left running by a session that ended in Timeout         *)
(* included) delivers nothing and leaves the session active.               *)
(***************************************************************************)
IdleExpiryNoEdges ==
  /\ end_timer /\ ~end_timer'
  /\ pc' = pc
  /\ learn_state.active /\ learn_state.edge_count = 0

C36_CompletedHasTimings ==
  [][ /\ \A k \in 1..Len(notes') :
           notes'[k].status = "IR_LEARN_COMPLETED"
             => notes'[k].signal.timing_count >= 1
      /\ IdleExpiryNoEdges => (notes' = notes /\ learn_state'.active)
    ]_vars

\* In the second session the idle timer left running by the first has
\* expired before any edge was accepted; the session went on and ended in
\* Completed.
C36_Witness ==
  /\ hist.end_idle
  /\ hist.session = 2
  /\ Len(notes) > 0
  /\ notes[Len(notes)].status = "IR_LEARN_COMPLETED"
  /\ notes[Len(notes)].signal.timing_count >= 1

(***************************************************************************)
(* C37. ir_learning_compare on two valid signals returns 0 and writes a    *)
(* similarity between 0 and 100, also when a timing_count is 0.            *)
(***************************************************************************)
C37_CompareTotal ==
  (cmp.ret # "none" /\ cmp.sig1.valid /\ cmp.sig2.valid)
    => (cmp.ret = "0" /\ cmp.similarity \in 0..100)

(***************************************************************************)
(* C40. In ir_learning_analyze, whenever min_pulse > 0 the divisor         *)
(* min_pulse * 2, computed in 32 bit unsigned arithmetic, is not zero,     *)
(* also for durations of 2^31 us and more: the frequency estimate never    *)
(* divides by zero.                                                        *)
(***************************************************************************)
C40_DivisorNonZero ==
  (ana.ret # "none" /\ ana.signal.valid)
    => /\ ana.analysis.min_pulse # U32(0, 0)
            => Twice32(ana.analysis.min_pulse) # U32(0, 0)
       /\ ana.ret = "0"

(***************************************************************************)
(* C39. The Error notification is never delivered: whenever the session    *)
(* is active, after a Start that passed the buffer test, the timings       *)
(* pointer of the engine's signal is not NULL.                             *)
(***************************************************************************)
C39_NoError ==
  /\ \A k \in 1..Len(notes) : notes[k].status # "IR_LEARN_ERROR"
  /\ learn_state.active => learn_state.timings_ptr # "NULL"

\* The second session, started after the reset of the engine's signal in
\* the second ir_learning_start, has recorded a pulse.
C39_Witness ==
  /\ hist.session = 2
  /\ learn_state.active
  /\ learn_state.edge_count > 0
  /\ hist.accepted > 0
  /\ learn_state.timings_ptr = "buf"

=============================================================================
